---- MODULE Spec2Model ----
(***************************************************************************)
(* Frost prediction pipeline of proyecto_heladas_madrid.                   *)
(*                                                                         *)
(* PredictorHeladasMulti (app/predictor_multiestacion.py) and              *)
(* PredictorHeladas (app/predictor.py): the predecir operation with its    *)
(* result cache, the per-station loop and the risk classification.         *)
(* The later sections add the interpolation and gap-filling routines, and  *)
(* the Telegram bot (bot/): its subscriber table, command handlers,        *)
(* notifier and scheduled reviews.                                         *)
(*                                                                         *)
(* Timestamps are integers counted in ticks (TicksPerDay ticks per day);   *)
(* a calendar date is a day number.  Temperatures are integers in tenths   *)
(* of a degree Celsius.                                                    *)
(***************************************************************************)
EXTENDS Integers, Sequences, FiniteSets, TLC

\* ------------------------------------------------------------------------
\* Bounds of the model
\* ------------------------------------------------------------------------
TicksPerDay == 2          \* resolution of a timestamp within one day
UltimoDia == 105          \* last day present in the historical CSV
MaxTicks == 3             \* how far the wall clock advances
MaxTardias == 1           \* stations of the CSV that start reporting late
RelojInicial == 201       \* wall clock at construction (day 100, 12:00)
TempFrio == 60             \* coldest temperature classified (tenths below zero)
TempMax == 80             \* warmest temperature classified (tenths)
NumHilos == 2             \* concurrent callers of one predictor
MaxResultados == 3        \* station results handed to one interpolation
MaxDLat == 1              \* clicks: steps north of the first station
MaxDLon == 19             \* clicks: steps east of the first station
MaxCoordClick == 7        \* point in polygon: largest coordinate clicked (halves)
MaxConsultas == 3         \* point in polygon: queries of the same point
MaxHueco == 4             \* gap filler: days asked for beyond the last row
MaxFilasCompletas == 4    \* feature construction: rows beyond the longest lookback
MaxInicio == 2            \* feature construction: first value of a ramp (degrees)
MaxRevisiones == 1        \* bot: reviews started by hand or by an unnamed trigger
MaxDiasAgenda == 1        \* bot: days the clock of the job queue runs
MaxContador == 3          \* database: alerts counted for one chat

\* ------------------------------------------------------------------------
\* Program constants
\* ------------------------------------------------------------------------
MinFilasMulti == 100      \* predictor_multiestacion.py:306
MinFilasSimple == 50      \* predictor.py:320
MinFilasEstacion == 50    \* predictor_multiestacion.py:344, 371
MaxLag == 30              \* largest lag / window / diff of the feature set
UmbralMuyAlto == -20      \* -2 C in tenths
UmbralAlto == 0
UmbralMedio == 20
UmbralBajo == 40
NaN == -9999              \* numpy.nan

CodigoMadrid == "21205880"
Estaciones == {"21205880", "21206060", "21205420"}
\* order of the TMin_ columns in the CSV (dict insertion order)
OrdenEstaciones == <<"21205880", "21206060", "21205420">>

None == [tipo |-> "none"]
\* None in a place that otherwise holds a timestamp (equal to no timestamp)
SinFecha == -1
ErrorVal(msg) == [tipo |-> "error", error |-> msg]
Excepcion(cls) == [tipo |-> "excepcion", clase |-> cls]

Max(a, b) == IF a >= b THEN a ELSE b
Min(a, b) == IF a <= b THEN a ELSE b

\* ------------------------------------------------------------------------
\* Dates
\* ------------------------------------------------------------------------
\* pd.Timestamp.normalize(): drop the time-of-day component
Normalize(ts) == ts - (ts % TicksPerDay)
\* Timestamp.date(): the calendar day of a timestamp
DateOf(ts) == ts \div TicksPerDay
\* timedelta(days=n)
Dias(n) == n * TicksPerDay

\* arguments of predecir: a timestamp, None (today) or an unparseable string
ArgTs(ts) == [tipo |-> "ts", ts |-> ts]
ArgNone == [tipo |-> "none", ts |-> 0]
ArgInvalida == [tipo |-> "invalida", ts |-> 0]

DiasConsulta == {49, 50, 100, 101, 107}
ArgsFecha ==
    {ArgTs(Dias(d)) : d \in DiasConsulta}
        \cup {ArgTs(Dias(101) + 1), ArgNone, ArgInvalida}

VARIABLES
    clase,              \* which predictor class this process constructed
    df_tmin_desde,      \* per station: first day whose TMin is not NaN
    cov_vacia,          \* TRUE when a PREC/TMax column of the CSV is all NaN
    artefactos,         \* the loaded model artifacts
    ahora,              \* wall clock (timestamp)
    ultima_prediccion,  \* self._ultima_prediccion
    fecha_cache,        \* self._fecha_cache (multi only)
    calculada_para,     \* history: normalized date ultima_prediccion was computed for
    ret,                \* history: the last call of predecir and what it returned
    temperatura,        \* risk classification: the temperature classified
    riesgo_multi,       \* its tier by PredictorHeladasMulti
    riesgo_simple,      \* its tier by PredictorHeladas
    pc,                 \* concurrent callers: where each one is in predecir
    h_fecha,            \* concurrent callers: local fecha_consulta
    h_resultado,        \* concurrent callers: local resultado / returned value
    notif,              \* notifier: what obtener_prediccion_actual returned last
    idw,                \* interpolation: the query, the results and both estimates
    geo,                \* point in polygon: the click, the ring and the answers
    relleno,            \* gap filler: self.df, fecha_hasta and the frame returned
    feat,               \* feature construction: the input series and the output
    tabla,              \* bot: the suscriptores table, one row per chat id
    historial,          \* bot: the historial_alertas table
    rev,                \* bot: the running revisar_y_enviar_alertas coroutine
    respuesta,          \* bot: the last command handled and the reply sent
    detenido,           \* history: chats whose last /stop succeeded, no /reanudar since
    entregadas,         \* history: per chat, alerts whose send_message succeeded
    agenda,             \* bot: the Application, its job queue and the clock
    noti                \* notifier: one call of obtener_prediccion_actual

entorno == <<clase, df_tmin_desde, cov_vacia, artefactos>>
vars_riesgo == <<temperatura, riesgo_multi, riesgo_simple>>
vars_hilos == <<pc, h_fecha, h_resultado>>
vars_bot == <<tabla, historial, rev, respuesta, detenido, entregadas, agenda, noti>>
vars_puras == <<idw, geo, relleno, feat, vars_bot>>
vars == <<clase, df_tmin_desde, cov_vacia, artefactos, ahora,
          ultima_prediccion, fecha_cache, calculada_para, ret,
          temperatura, riesgo_multi, riesgo_simple, pc, h_fecha, h_resultado,
          notif, idw, geo, relleno, feat,
          tabla, historial, rev, respuesta, detenido, entregadas, agenda, noti>>

\* ------------------------------------------------------------------------
\* Historical data (Datos/datos_imputados/cundinamarca_imputado_v1.csv)
\* ------------------------------------------------------------------------
IdxEstacion(codigo) ==
    CHOOSE i \in 1..Len(OrdenEstaciones) : OrdenEstaciones[i] = codigo

\* the stored TMin observation of a station on a day (tenths of a degree)
TMinDato(codigo, d) == ((d * 37 + IdxEstacion(codigo) * 53) % 90) - 30

\* self.df: one row per day 1..UltimoDia, Fecha at midnight
\* the TMin_<codigo>_ column: NaN before the station started reporting
ColTMin(codigo, d) == IF d < df_tmin_desde[codigo] THEN NaN ELSE TMinDato(codigo, d)
\* the PREC / TMax columns
ColCov(d) == IF cov_vacia THEN NaN ELSE (d * 7) % 30
\* A frame holds one row per day over a run of consecutive days and is
\* represented by the first and last day of the run (empty when fin < ini);
\* its columns are read through the operators above.  Fecha is midnight.
Marco(ini, fin) == [ini |-> ini, fin |-> fin]
Filas(m) == Max(0, m.fin - m.ini + 1)
Fecha(d) == Dias(d)
\* self.df: one row per day 1..UltimoDia
df == Marco(1, UltimoDia)
\* frame[frame['Fecha'] <= limite]
HastaFecha(m, limite) == Marco(m.ini, Min(m.fin, limite \div TicksPerDay))
\* frame.dropna(subset=[col_tmin]): the NaN rows of a station column are
\* the days before the station started reporting
SinNaN(m, codigo) == Marco(Max(m.ini, df_tmin_desde[codigo]), m.fin)

\* ------------------------------------------------------------------------
\* Feature construction (column names and complete rows)
\* ------------------------------------------------------------------------
Lags == {1, 2, 3, 7, 14, 21, 30}
VentanasRolling == {3, 7, 14, 30}
VentanasTendencia == {7, 14, 30}

Nombre(prefijo, n) == prefijo \o ToString(n)

ColsComunes ==
    {"Fecha", "Mes", "DiaAno", "DiaSemana", "Semana",
     "Mes_sin", "Mes_cos", "DiaAno_sin", "DiaAno_cos",
     "Semana_sin", "Semana_cos", "DiaSemana_sin", "DiaSemana_cos",
     "TMIN_diff_1", "TMIN_diff_7", "TMIN_diff_30", "TMIN_aceleracion"}
        \cup {Nombre("TMIN_lag_", l) : l \in Lags}
        \cup {Nombre(p, w) : p \in {"TMIN_ma_", "TMIN_std_", "TMIN_min_", "TMIN_max_"},
                             w \in VentanasRolling}
        \cup {Nombre(p, w) : p \in {"TMIN_tendencia_", "TMIN_rango_"},
                             w \in VentanasTendencia}

\* columns of _crear_features_madrid
ColsMadrid(incluir_prec_tmax) ==
    ColsComunes \cup {"Trimestre"}
        \cup {Nombre(p, w) : p \in {"TMIN_q25_", "TMIN_q75_"}, w \in VentanasTendencia}
        \cup (IF incluir_prec_tmax
              THEN {"PREC_lag1", "PREC_promedio", "PREC_max", "PREC_std",
                    "PREC_promedio_lag2", "PREC_promedio_lag3", "PREC_promedio_lag7",
                    "PREC_suma_3", "PREC_suma_7", "PREC_suma_14",
                    "TMax_lag1", "TMAX_promedio", "TMAX_std", "Rango_termico_lag1",
                    "TMAX_ma_3", "TMAX_ma_7", "TMAX_ma_14", "TMAX_diff_1",
                    "TMax_TMin_ratio", "PREC_binaria"}
              ELSE {})

\* columns of _crear_features_unificado (no Trimestre, no quantiles)
ColsUnificado(incluir_prec_tmax) ==
    ColsComunes
        \cup (IF incluir_prec_tmax
              THEN {"PREC_lag1", "PREC_promedio", "PREC_binaria",
                    "TMax_lag1", "TMAX_promedio", "Rango_termico_lag1"}
              ELSE {})

\* the covariates after fillna(column mean): a column that is entirely NaN
\* has mean NaN and stays NaN
CovRellenaNaN(m) == cov_vacia

\* Rows that survive df_out.dropna(): a row needs MaxLag earlier rows (shift
\* is positional) and, with covariates, a non-NaN lagged covariate
FilasFeatures(m, incluir_prec_tmax) ==
    IF incluir_prec_tmax /\ CovRellenaNaN(m) THEN Marco(m.fin + 1, m.fin)
    ELSE Marco(m.ini + MaxLag, m.fin)

\* ------------------------------------------------------------------------
\* Model artifacts (joblib pickles): ordered feature names and the number of
\* features the scaler was fitted on
\* ------------------------------------------------------------------------
Artefacto(nombres) == [features |-> nombres, n_features_in |-> Cardinality(nombres)]

ArtefactosBuenos ==
    [temp     |-> Artefacto({"TMIN_lag_1", "Trimestre", "TMIN_q25_7"}),
     helada   |-> Artefacto({"TMIN_lag_1", "PREC_promedio", "TMax_TMin_ratio"}),
     u_temp   |-> Artefacto({"TMIN_lag_1", "Mes_sin"}),
     u_helada |-> Artefacto({"TMIN_lag_1", "PREC_binaria", "Rango_termico_lag1"})]

ArtefactosPosibles ==
    {ArtefactosBuenos,
     \* the dedicated temperature artifact names a column that is never built
     [ArtefactosBuenos EXCEPT !.temp = Artefacto({"TMIN_lag_1", "TMIN_ewm_7"})],
     \* the unified frost artifact asks for a Madrid-only column
     [ArtefactosBuenos EXCEPT !.u_helada = Artefacto({"TMIN_lag_1", "TMax_TMin_ratio"})],
     \* the unified scaler was fitted on another number of features
     [ArtefactosBuenos EXCEPT !.u_temp.n_features_in = 3]}

\* model.predict(scaler.transform(X))[0]: the regressor reads the lag-1 target
ModeloPredict(X) == X.TMIN_lag_1

\* model.decision_function(scaler.transform(Xh))[0]: colder means higher score
ModeloScore(Xh) == Max(-2, Min(2, 0 - (Xh.TMIN_lag_1 \div 10)))

\* round(1 / (1 + exp(-score)) * 100, 1), in tenths of a percent
Logistica(score) ==
    CASE score = -2 -> 119
      [] score = -1 -> 269
      [] score = 0  -> 500
      [] score = 1  -> 731
      [] score = 2  -> 881

\* ------------------------------------------------------------------------
\* Risk classification
\* ------------------------------------------------------------------------
\* variant: the boundaries are compared with < instead of <=
RiesgoMulti_estricto(temp_pred) ==
    IF temp_pred < UmbralMuyAlto THEN "MUY ALTO"
    ELSE IF temp_pred < UmbralAlto THEN "ALTO"
    ELSE IF temp_pred < UmbralMedio THEN "MEDIO"
    ELSE IF temp_pred < UmbralBajo THEN "BAJO"
    ELSE "MUY BAJO"

\* predictor_multiestacion.py, the if/elif chain on temp_pred
RiesgoMulti(temp_pred) ==
    IF temp_pred <= UmbralMuyAlto THEN "MUY ALTO"
    ELSE IF temp_pred <= UmbralAlto THEN "ALTO"
    ELSE IF temp_pred <= UmbralMedio THEN "MEDIO"
    ELSE IF temp_pred <= UmbralBajo THEN "BAJO"
    ELSE "MUY BAJO"

\* predictor.py, the if/elif chain on temp_predicha
RiesgoSimple(temp_predicha) ==
    IF temp_predicha <= UmbralMuyAlto THEN "MUY ALTO"
    ELSE IF temp_predicha <= UmbralAlto THEN "ALTO"
    ELSE IF temp_predicha <= UmbralMedio THEN "MEDIO"
    ELSE IF temp_predicha <= UmbralBajo THEN "BAJO"
    ELSE "MUY BAJO"

\* ------------------------------------------------------------------------
\* PredictorHeladasMulti.predecir
\* ------------------------------------------------------------------------
Lote(fc, fp, preds) ==
    [tipo |-> "lote", fecha_consulta |-> fc, fecha_prediccion |-> fp,
     predicciones_estaciones |-> preds]

Continue == [tipo |-> "continue"]

\* X = df_feat[features].iloc[[-1]]; scaler.transform(X): KeyError when a
\* name is not a column, ValueError when the scaler expects another width.
\* The selected row carries the lag-1 target (the value of the row before).
Seleccionar(codigo, df_feat, art, columnas) ==
    IF ~(art.features \subseteq columnas) THEN Excepcion("KeyError")
    ELSE IF art.n_features_in # Cardinality(art.features) THEN Excepcion("ValueError")
    ELSE [tipo |-> "X", TMIN_lag_1 |-> ColTMin(codigo, df_feat.fin - 1)]

\* body of the try block for one station: a prediction, a continue, or an
\* exception raised inside the block
ProcesarEstacion(codigo, df_hoy) ==
    LET madrid == (codigo = CodigoMadrid)
        art_t == IF madrid THEN artefactos.temp ELSE artefactos.u_temp
        art_h == IF madrid THEN artefactos.helada ELSE artefactos.u_helada
        cols(inc) == IF madrid THEN ColsMadrid(inc) ELSE ColsUnificado(inc)
        \* df_hoy[['Fecha', col_tmin]].dropna(), and dropna(subset=[col_tmin])
        df_temp == SinNaN(df_hoy, codigo)
        df_feat_temp == FilasFeatures(df_temp, FALSE)
        X == Seleccionar(codigo, df_feat_temp, art_t, cols(FALSE))
        df_feat_helada == FilasFeatures(df_temp, TRUE)
        Xh == Seleccionar(codigo, df_feat_helada, art_h, cols(TRUE))
    IN  IF Filas(df_temp) < MinFilasEstacion THEN Continue
        ELSE IF Filas(df_feat_temp) = 0 THEN Continue
        ELSE IF X.tipo = "excepcion" THEN X
        ELSE IF Filas(df_feat_helada) = 0 THEN Continue
        ELSE IF Xh.tipo = "excepcion" THEN Xh
        ELSE LET temp_pred == ModeloPredict(X)
                 prob == Logistica(ModeloScore(Xh))
             IN  [tipo |-> "ok",
                  pred |-> [codigo |-> codigo,
                            temperatura_predicha |-> temp_pred,
                            probabilidad_helada |-> prob,
                            riesgo |-> RiesgoMulti(temp_pred)]]

\* variant: the station body runs without the try/except, so an exception
\* raised for one station leaves the loop
PasoEstacion_sin_try(predicciones, codigo, df_hoy) ==
    LET r == ProcesarEstacion(codigo, df_hoy)
    IN  IF r.tipo = "ok"
        THEN [predicciones |-> Append(predicciones, r.pred), excepcion |-> None]
        ELSE IF r.tipo = "excepcion"
        THEN [predicciones |-> predicciones, excepcion |-> r]
        ELSE [predicciones |-> predicciones, excepcion |-> None]

\* one iteration of the station loop, with its try/except: a prediction is
\* appended, anything else (continue or a caught exception) goes on to the
\* next station; excepcion is what leaves the iteration uncaught
PasoEstacion(predicciones, codigo, df_hoy) ==
    LET r == ProcesarEstacion(codigo, df_hoy)
    IN  IF r.tipo = "ok"
        THEN [predicciones |-> Append(predicciones, r.pred), excepcion |-> None]
        ELSE [predicciones |-> predicciones, excepcion |-> None]

RECURSIVE BucleOrden(_, _, _, _)
\* the station loop over the stations in a given order of the TMin_ columns
BucleOrden(orden, acc, i, df_hoy) ==
    IF i > Len(orden) \/ acc.excepcion # None THEN acc
    ELSE BucleOrden(orden, PasoEstacion(acc.predicciones, orden[i], df_hoy),
                    i + 1, df_hoy)

\* the station loop in the order of the columns of the CSV
BucleEstaciones(acc, i, df_hoy) == BucleOrden(OrdenEstaciones, acc, i, df_hoy)

\* variant: the cache is consulted only when a recomputation is forced
CacheValidoMulti_forzado(fecha_consulta, forzar_recalculo) ==
    /\ forzar_recalculo
    /\ ultima_prediccion # None
    /\ fecha_cache = fecha_consulta

\* the cache check of predecir
CacheValidoMulti(fecha_consulta, forzar_recalculo) ==
    /\ ~forzar_recalculo
    /\ ultima_prediccion # None
    /\ fecha_cache = fecha_consulta

\* variant: the emptiness test is off by one
SinPredicciones_uno(predicciones) == Len(predicciones) <= 1

\* len(predicciones) == 0
SinPredicciones(predicciones) == Len(predicciones) = 0

\* variant: the batch is stored under fecha_limite instead of fecha_consulta
GuardarCache_limite(resultado, fecha_consulta) ==
    [ultima |-> resultado, fecha |-> fecha_consulta - Dias(1)]

\* self._ultima_prediccion = resultado; self._fecha_cache = fecha_consulta
GuardarCache(resultado, fecha_consulta) ==
    [ultima |-> resultado, fecha |-> fecha_consulta]

\* len(df_hoy) < 100
DatosInsuficientesMulti(df_hoy) == Filas(df_hoy) < MinFilasMulti

\* fecha_limite = fecha_consulta - timedelta(days=1)
FechaLimite(fecha_consulta) == fecha_consulta - Dias(1)

\* the resultado dict of the multi-station predictor
ResultadoMulti(fecha_consulta, predicciones) ==
    Lote(DateOf(FechaLimite(fecha_consulta)), DateOf(fecha_consulta), predicciones)

\* what a call does: the value it returns (or the exception it raises), the
\* cache it leaves, and whether it ran the computation
Salida(valor, ultima, fecha, para, fresco, ruido) ==
    [valor |-> valor, ultima |-> ultima, fecha |-> fecha, para |-> para,
     fresco |-> fresco, ruido |-> ruido]

\* variant: a call that stores nothing clears the cache
SinCambio_borra(valor, fresco) ==
    Salida(valor, None, SinFecha, SinFecha, fresco, <<>>)

SinCambio(valor, fresco) ==
    Salida(valor, ultima_prediccion, fecha_cache, calculada_para, fresco, <<>>)

\* predecir past the cache check: the value returned (or the exception
\* raised) for fecha_consulta, and whether it is a batch to be cached
CalculoOrden(orden, fecha_consulta) ==
    LET df_hoy == HastaFecha(df, FechaLimite(fecha_consulta))
        bucle == BucleOrden(orden, [predicciones |-> <<>>, excepcion |-> None], 1, df_hoy)
    IN  IF DatosInsuficientesMulti(df_hoy) THEN ErrorVal("Datos insuficientes")
        ELSE IF bucle.excepcion # None THEN bucle.excepcion
        ELSE IF SinPredicciones(bucle.predicciones)
        THEN ErrorVal("No se generaron predicciones")
        ELSE ResultadoMulti(fecha_consulta, bucle.predicciones)

CalculoMulti(fecha_consulta) == CalculoOrden(OrdenEstaciones, fecha_consulta)

PredecirMulti(arg, forzar_recalculo) ==
    IF arg.tipo = "invalida" THEN SinCambio(Excepcion("ValueError"), FALSE)
    ELSE
    LET fecha_consulta ==
            IF arg.tipo = "none" THEN Normalize(ahora) ELSE Normalize(arg.ts)
        resultado == CalculoMulti(fecha_consulta)
    IN  IF CacheValidoMulti(fecha_consulta, forzar_recalculo)
        THEN SinCambio(ultima_prediccion, FALSE)
        ELSE IF resultado.tipo # "lote" THEN SinCambio(resultado, TRUE)
        ELSE LET g == GuardarCache(resultado, fecha_consulta)
             IN  Salida(resultado, g.ultima, g.fecha, fecha_consulta, TRUE, <<>>)

\* ------------------------------------------------------------------------
\* PredictorHeladas (single station): gap filling and predecir
\* ------------------------------------------------------------------------
\* Calendar of the days of the model: day 1 is 1 January 2023, and the
\* calendar runs to the end of 2025
Anios == 2023..2025
Bisiesto(a) == a % 4 = 0
DiasMes(a) ==
    IF Bisiesto(a) THEN <<31, 29, 31, 30, 31, 30, 31, 31, 30, 31, 30, 31>>
    ELSE <<31, 28, 31, 30, 31, 30, 31, 31, 30, 31, 30, 31>>
\* days of the year before the first day of each month
DiasAntesDe(a) ==
    IF Bisiesto(a) THEN <<0, 31, 60, 91, 121, 152, 182, 213, 244, 274, 305, 335>>
    ELSE <<0, 31, 59, 90, 120, 151, 181, 212, 243, 273, 304, 334>>
\* days of the calendar before 1 January of a year
InicioAnio(a) == IF a = 2023 THEN 0 ELSE IF a = 2024 THEN 365 ELSE 731
\* Fecha.dt.year
Anio(d) == IF d <= 365 THEN 2023 ELSE IF d <= 731 THEN 2024 ELSE 2025
DiaDelAno(d) == d - InicioAnio(Anio(d))
\* Fecha.dt.month
Mes(d) ==
    LET antes == DiasAntesDe(Anio(d))
        n == DiaDelAno(d)
    IN  CHOOSE m \in 1..12 : antes[m] < n /\ (m = 12 \/ n <= antes[m + 1])
\* Fecha.dt.day
Dia(d) == DiaDelAno(d) - DiasAntesDe(Anio(d))[Mes(d)]
\* the days of the calendar that fall in a month, in any year
DiasDelMes(m) ==
    UNION {(InicioAnio(a) + DiasAntesDe(a)[m] + 1)
              ..(InicioAnio(a) + DiasAntesDe(a)[m] + DiasMes(a)[m]) : a \in Anios}
\* the days of the calendar that are a given day of a month, in any year
DiasDelDia(m, dia) ==
    {InicioAnio(a) + DiasAntesDe(a)[m] + dia : a \in {b \in Anios : dia <= DiasMes(b)[m]}}

RECURSIVE SumaTMin(_, _)
SumaTMin(codigo, S) ==
    IF S = {} THEN 0
    ELSE LET d == CHOOSE e \in S : TRUE
         IN  ColTMin(codigo, d) + SumaTMin(codigo, S \ {d})

\* mean of the target over a set of historical days (NaN when empty)
MediaTMin(codigo, S) ==
    LET validos == {d \in S : ColTMin(codigo, d) # NaN}
    IN  IF validos = {} THEN NaN
        ELSE SumaTMin(codigo, validos) \div Cardinality(validos)

\* temp_base of _simular_datos_faltantes: the historical mean of the same
\* (Mes, Dia), or the mean of the month when that calendar day is absent
TempBase(d) ==
    LET mes == Mes(d)
        dia == Dia(d)
        mismo_mes == {h \in DiasDelMes(mes) : h \in 1..UltimoDia}
        mismo_dia == {h \in DiasDelDia(mes, dia) : h \in 1..UltimoDia}
    IN  IF mismo_dia # {} THEN MediaTMin(CodigoMadrid, mismo_dia)
        ELSE MediaTMin(CodigoMadrid, mismo_mes)

\* np.random.normal(0, 0.5): the draws the model distinguishes (tenths)
Ruido == {-5, 5}

\* the simulated rows whose target reaches the result: the last row
\* (temp_ayer) and the one before it (the lag-1 feature of the last row)
DiasConRuido(fecha_hasta) ==
    {d \in {DateOf(fecha_hasta) - 1, DateOf(fecha_hasta)} : d > UltimoDia}

\* _simular_datos_faltantes(fecha_hasta): the extended copy of self.df
SimularDatosFaltantes(fecha_hasta) ==
    IF fecha_hasta <= Fecha(df.fin) THEN df
    ELSE Marco(df.ini, DateOf(fecha_hasta))

\* the target column of the extended frame
TMinExtendido(d, ruido) ==
    IF d <= UltimoDia THEN ColTMin(CodigoMadrid, d)
    ELSE LET temp_base == TempBase(d)
         IN  IF temp_base = NaN THEN NaN
             ELSE temp_base + (IF d \in DOMAIN ruido THEN ruido[d] ELSE 0)

\* if self._ultima_prediccion and not forzar_recalculo
CacheValidoSimple(forzar_recalculo) ==
    ultima_prediccion # None /\ ~forzar_recalculo

\* the resultado dict of the single-station predictor
ResultadoSimple(fecha_consulta, temp_predicha, prob, temp_ayer, registros) ==
    [tipo |-> "lote",
     fecha_consulta |-> DateOf(fecha_consulta),
     fecha_prediccion |-> DateOf(fecha_consulta + Dias(1)),
     temperatura_predicha |-> temp_predicha,
     probabilidad_helada |-> prob,
     riesgo |-> RiesgoSimple(temp_predicha),
     temp_ayer |-> temp_ayer,
     timestamp |-> ahora,
     registros_usados |-> registros,
     datos_simulados |-> fecha_consulta > Fecha(df.fin)]

\* the body of the try block of predecir: a result, an error value, or an
\* exception raised inside the block
CuerpoSimple(arg, ruido) ==
    IF arg.tipo = "invalida" THEN Excepcion("ValueError")
    ELSE
    LET fecha_consulta ==
            IF arg.tipo = "none" THEN Normalize(ahora) ELSE Normalize(arg.ts)
        df_completo == SimularDatosFaltantes(fecha_consulta)
        df_hasta_hoy == HastaFecha(df_completo, fecha_consulta)
        \* dropna(subset=[self.target]); the simulated rows are not NaN here
        df_temp == SinNaN(df_hasta_hoy, CodigoMadrid)
        df_feat_temp == FilasFeatures(df_temp, FALSE)
        df_feat_helada == FilasFeatures(df_temp, TRUE)
        X == IF ~(artefactos.temp.features \subseteq ColsMadrid(FALSE))
             THEN Excepcion("KeyError")
             ELSE IF artefactos.temp.n_features_in # Cardinality(artefactos.temp.features)
             THEN Excepcion("ValueError")
             ELSE [tipo |-> "X",
                   TMIN_lag_1 |-> TMinExtendido(df_feat_temp.fin - 1, ruido)]
        Xh == IF ~(artefactos.helada.features \subseteq ColsMadrid(TRUE))
              THEN Excepcion("KeyError")
              ELSE IF artefactos.helada.n_features_in # Cardinality(artefactos.helada.features)
              THEN Excepcion("ValueError")
              ELSE [tipo |-> "X",
                    TMIN_lag_1 |-> TMinExtendido(df_feat_helada.fin - 1, ruido)]
    IN  IF Filas(df_hasta_hoy) < MinFilasSimple
        THEN ErrorVal("Datos insuficientes para prediccion")
        ELSE IF Filas(df_feat_temp) = 0
        THEN ErrorVal("No se pudieron crear features de temperatura")
        ELSE IF X.tipo = "excepcion" THEN X
        ELSE IF Filas(df_feat_helada) = 0
        THEN ErrorVal("No se pudieron crear features de helada")
        ELSE IF Xh.tipo = "excepcion" THEN Xh
        ELSE ResultadoSimple(fecha_consulta, ModeloPredict(X),
                             Logistica(ModeloScore(Xh)),
                             TMinExtendido(df_hasta_hoy.fin, ruido),
                             Filas(df_hasta_hoy))

\* except Exception as e: return {"error": str(e)}
CapturarSimple(r) == IF r.tipo = "excepcion" THEN ErrorVal(r.clase) ELSE r

\* the noise the gap filler draws for a call that reaches it
RuidosDe(arg) ==
    IF arg.tipo = "invalida" THEN {<<>>}
    ELSE [DiasConRuido(IF arg.tipo = "none" THEN Normalize(ahora) ELSE Normalize(arg.ts))
            -> Ruido]

PredecirSimple(arg, forzar_recalculo, ruido) ==
    IF CacheValidoSimple(forzar_recalculo) THEN SinCambio(ultima_prediccion, FALSE)
    ELSE LET r == CapturarSimple(CuerpoSimple(arg, ruido))
         IN  IF r.tipo = "lote"
             THEN Salida(r, r, fecha_cache,
                         Normalize(IF arg.tipo = "none" THEN ahora ELSE arg.ts),
                         TRUE, ruido)
             ELSE Salida(r, ultima_prediccion, fecha_cache, calculada_para, TRUE, <<>>)

\* ------------------------------------------------------------------------
\* State machine
\* ------------------------------------------------------------------------
Llamada(arg, forzar, r) ==
    [arg |-> arg, forzar |-> forzar, valor |-> r.valor, fresco |-> r.fresco,
     ruido |-> r.ruido, hoy |-> Normalize(ahora), turno |-> 1 - ret.turno]

SinLlamada ==
    [arg |-> ArgNone, forzar |-> FALSE, valor |-> None, fresco |-> FALSE,
     ruido |-> <<>>, hoy |-> 0, turno |-> 0]

SinClasificar == "sin clasificar"
Hilos == 1..NumHilos

\* the interpolation, polygon, gap-filler and feature routines have not
\* been called
Reposo == [hecho |-> FALSE]
\* neither the bot nor the notifier of the bot has been constructed
BotEnReposo ==
    /\ tabla = Reposo /\ historial = Reposo /\ rev = Reposo /\ respuesta = Reposo
    /\ detenido = Reposo /\ entregadas = Reposo /\ agenda = Reposo /\ noti = Reposo
PurasEnReposo ==
    /\ idw = Reposo /\ geo = Reposo /\ relleno = Reposo /\ feat = Reposo
    /\ BotEnReposo

Init ==
    /\ clase \in {"multi", "simple"}
    /\ df_tmin_desde \in [Estaciones -> {1, 70}]
    /\ Cardinality({c \in Estaciones : df_tmin_desde[c] # 1}) <= MaxTardias
    /\ cov_vacia \in BOOLEAN
    /\ artefactos \in ArtefactosPosibles
    /\ cov_vacia => artefactos = ArtefactosBuenos
    /\ clase = "simple" =>
          /\ df_tmin_desde = [c \in Estaciones |-> 1]
          /\ artefactos.u_temp = ArtefactosBuenos.u_temp
          /\ artefactos.u_helada = ArtefactosBuenos.u_helada
    /\ ahora = RelojInicial
    /\ ultima_prediccion = None
    /\ fecha_cache = SinFecha
    /\ calculada_para = SinFecha
    /\ ret = SinLlamada
    /\ temperatura = 0 /\ riesgo_multi = SinClasificar /\ riesgo_simple = SinClasificar
    /\ pc = [h \in Hilos |-> "libre"]
    /\ h_fecha = [h \in Hilos |-> SinFecha]
    /\ h_resultado = [h \in Hilos |-> None]
    /\ notif = None
    /\ PurasEnReposo

LlamarPredecirMulti ==
    /\ clase = "multi"
    /\ \E arg \in ArgsFecha, forzar \in BOOLEAN :
         \E r \in {PredecirMulti(arg, forzar)} :
             /\ ultima_prediccion' = r.ultima
             /\ fecha_cache' = r.fecha
             /\ calculada_para' = r.para
             /\ ret' = Llamada(arg, forzar, r)
    /\ UNCHANGED <<entorno, ahora, vars_riesgo, vars_hilos, notif, vars_puras>>

LlamarPredecirSimple ==
    /\ clase = "simple"
    /\ \E arg \in ArgsFecha, forzar \in BOOLEAN :
         \E ruido \in (IF CacheValidoSimple(forzar) THEN {<<>>} ELSE RuidosDe(arg)) :
         \E r \in {PredecirSimple(arg, forzar, ruido)} :
             /\ ultima_prediccion' = r.ultima
             /\ fecha_cache' = r.fecha
             /\ calculada_para' = r.para
             /\ ret' = Llamada(arg, forzar, r)
    /\ UNCHANGED <<entorno, ahora, vars_riesgo, vars_hilos, notif, vars_puras>>

\* NotificadorHeladas.__init__: estacion_default
EstacionDefault == "21205790"

\* the dict returned for the chosen station
PrediccionEstacion(pred_estacion, resultado_multi) ==
    [tipo |-> "prediccion",
     temperatura_predicha |-> pred_estacion.temperatura_predicha,
     probabilidad_helada |-> pred_estacion.probabilidad_helada,
     riesgo |-> pred_estacion.riesgo,
     fecha_prediccion |-> resultado_multi.fecha_prediccion,
     estacion_codigo |-> pred_estacion.codigo]

\* variant: the search always takes the first result
ElegirPor_primera(estacion_default, predicciones) == predicciones[1]

\* the search for the station estacion_default: the first result with its
\* code, or the first result of the list when there is none
ElegirPor(estacion_default, predicciones) ==
    LET con_codigo == {i \in 1..Len(predicciones) :
                          predicciones[i].codigo = estacion_default}
    IN  IF con_codigo # {}
        THEN predicciones[CHOOSE i \in con_codigo : \A j \in con_codigo : i <= j]
        ELSE predicciones[1]

\* the search of a notifier constructed without arguments
Elegir(predicciones) == ElegirPor(EstacionDefault, predicciones)

\* obtener_prediccion_actual of a notifier with the given estacion_default,
\* whose predictor is available or None, after self.predictor.predecir()
\* has returned resultado_multi (or raised)
ObtenerPrediccionDe(disponible, estacion_default, resultado_multi) ==
    IF ~disponible THEN ErrorVal("Predictor no disponible")
    ELSE IF resultado_multi.tipo = "excepcion" THEN ErrorVal(resultado_multi.clase)
    ELSE IF resultado_multi.tipo = "error" THEN ErrorVal(resultado_multi.error)
    ELSE IF Len(resultado_multi.predicciones_estaciones) = 0
    THEN ErrorVal("No hay predicciones disponibles")
    ELSE PrediccionEstacion(
             ElegirPor(estacion_default, resultado_multi.predicciones_estaciones),
             resultado_multi)

\* obtener_prediccion_actual of the notifier of the bot, whose predictor
\* was constructed
ObtenerPrediccionActual(resultado_multi) ==
    ObtenerPrediccionDe(TRUE, EstacionDefault, resultado_multi)

\* the notifier asks its predictor for today's prediction
NotificadorObtener ==
    /\ clase = "multi"
    /\ \E r \in {PredecirMulti(ArgNone, FALSE)} :
         /\ ultima_prediccion' = r.ultima
         /\ fecha_cache' = r.fecha
         /\ calculada_para' = r.para
         /\ ret' = Llamada(ArgNone, FALSE, r)
         /\ notif' = [tipo |-> "notif", resultado_multi |-> r.valor,
                      fecha |-> Normalize(ahora),
                      prediccion |-> ObtenerPrediccionActual(r.valor)]
    /\ UNCHANGED <<entorno, ahora, vars_riesgo, vars_hilos, vars_puras>>

\* the wall clock advances
Tick ==
    /\ ahora < RelojInicial + MaxTicks
    /\ ahora' = ahora + 1
    /\ UNCHANGED <<entorno, ultima_prediccion, fecha_cache, calculada_para, ret,
                   vars_riesgo, vars_hilos, notif, vars_puras>>

Next == LlamarPredecirMulti \/ LlamarPredecirSimple \/ NotificadorObtener \/ Tick

Spec == Init /\ [][Next]_vars

\* ------------------------------------------------------------------------
\* Risk classification on its own: every temperature of the range is
\* classified by both predictor classes
\* ------------------------------------------------------------------------
Temperaturas == (0 - TempFrio)..TempMax

InitRiesgo ==
    /\ clase = "multi"
    /\ df_tmin_desde = [c \in Estaciones |-> 1]
    /\ cov_vacia = FALSE
    /\ artefactos = ArtefactosBuenos
    /\ ahora = RelojInicial
    /\ ultima_prediccion = None /\ fecha_cache = SinFecha /\ calculada_para = SinFecha
    /\ ret = SinLlamada
    /\ temperatura \in Temperaturas
    /\ riesgo_multi = SinClasificar /\ riesgo_simple = SinClasificar
    /\ pc = [h \in Hilos |-> "libre"]
    /\ h_fecha = [h \in Hilos |-> SinFecha]
    /\ h_resultado = [h \in Hilos |-> None]
    /\ notif = None
    /\ PurasEnReposo

ClasificarRiesgo ==
    /\ riesgo_multi = SinClasificar
    /\ riesgo_multi' = RiesgoMulti(temperatura)
    /\ riesgo_simple' = RiesgoSimple(temperatura)
    /\ UNCHANGED <<entorno, ahora, ultima_prediccion, fecha_cache, calculada_para,
                   ret, temperatura, vars_hilos, notif, vars_puras>>

OtraTemperatura ==
    /\ riesgo_multi # SinClasificar
    /\ temperatura' \in Temperaturas
    /\ riesgo_multi' = SinClasificar /\ riesgo_simple' = SinClasificar
    /\ UNCHANGED <<entorno, ahora, ultima_prediccion, fecha_cache, calculada_para,
                   ret, vars_hilos, notif, vars_puras>>

NextRiesgo == ClasificarRiesgo \/ OtraTemperatura

SpecRiesgo == InitRiesgo /\ [][NextRiesgo]_vars

\* ------------------------------------------------------------------------
\* Concurrent callers of one PredictorHeladasMulti (the instance that
\* st.cache_resource shares between sessions): predecir runs statement by
\* statement, and a thread switch may fall between any two of its steps
\* ------------------------------------------------------------------------
FechasHilos == {Dias(100), Dias(101), Dias(107)}

InitHilos ==
    /\ clase = "multi"
    /\ df_tmin_desde = [c \in Estaciones |-> 1]
    /\ cov_vacia = FALSE
    /\ artefactos = ArtefactosBuenos
    /\ ahora = RelojInicial
    /\ ultima_prediccion = None /\ fecha_cache = SinFecha /\ calculada_para = SinFecha
    /\ ret = SinLlamada
    /\ temperatura = 0 /\ riesgo_multi = SinClasificar /\ riesgo_simple = SinClasificar
    /\ pc = [h \in Hilos |-> "libre"]
    /\ h_fecha = [h \in Hilos |-> SinFecha]
    /\ h_resultado = [h \in Hilos |-> None]
    /\ notif = None
    /\ PurasEnReposo

FueraDeHilos == <<entorno, ahora, calculada_para, ret, vars_riesgo, notif, vars_puras>>

\* a caller enters predecir(fecha, forzar_recalculo=False) and normalizes
EntrarPredecir(h) ==
    /\ pc[h] = "libre"
    /\ \E f \in FechasHilos :
         h_fecha' = [h_fecha EXCEPT ![h] = Normalize(f)]
    /\ pc' = [pc EXCEPT ![h] = "verificar"]
    /\ h_resultado' = [h_resultado EXCEPT ![h] = None]
    /\ UNCHANGED <<ultima_prediccion, fecha_cache, FueraDeHilos>>

\* the cache check: a hit returns the cached batch
VerificarCache(h) ==
    /\ pc[h] = "verificar"
    /\ IF CacheValidoMulti(h_fecha[h], FALSE)
       THEN /\ h_resultado' = [h_resultado EXCEPT ![h] = ultima_prediccion]
            /\ pc' = [pc EXCEPT ![h] = "libre"]
       ELSE /\ pc' = [pc EXCEPT ![h] = "calcular"]
            /\ UNCHANGED h_resultado
    /\ UNCHANGED <<h_fecha, ultima_prediccion, fecha_cache, FueraDeHilos>>

\* the fresh computation; an error value is returned at once
Calcular(h) ==
    /\ pc[h] = "calcular"
    /\ \E r \in {CalculoMulti(h_fecha[h])} :
         /\ h_resultado' = [h_resultado EXCEPT ![h] = r]
         /\ pc' = [pc EXCEPT ![h] = IF r.tipo = "lote" THEN "guardar_prediccion"
                                    ELSE "libre"]
    /\ UNCHANGED <<h_fecha, ultima_prediccion, fecha_cache, FueraDeHilos>>

\* self._ultima_prediccion = resultado
GuardarPrediccion(h) ==
    /\ pc[h] = "guardar_prediccion"
    /\ ultima_prediccion' = GuardarCache(h_resultado[h], h_fecha[h]).ultima
    /\ pc' = [pc EXCEPT ![h] = "guardar_fecha"]
    /\ UNCHANGED <<h_fecha, h_resultado, fecha_cache, FueraDeHilos>>

\* self._fecha_cache = fecha_consulta; return resultado
GuardarFecha(h) ==
    /\ pc[h] = "guardar_fecha"
    /\ fecha_cache' = GuardarCache(h_resultado[h], h_fecha[h]).fecha
    /\ pc' = [pc EXCEPT ![h] = "libre"]
    /\ UNCHANGED <<h_fecha, h_resultado, ultima_prediccion, FueraDeHilos>>

NextHilos ==
    \E h \in Hilos :
        \/ EntrarPredecir(h)
        \/ VerificarCache(h)
        \/ Calcular(h)
        \/ GuardarPrediccion(h)
        \/ GuardarFecha(h)

SpecHilos == InitHilos /\ [][NextHilos]_vars

\* ------------------------------------------------------------------------
\* Properties of predecir
\* ------------------------------------------------------------------------
HuboLlamada == ret.valor # None
ArgValido(l) == l.arg.tipo # "invalida"
\* the normalized query date of a call
FechaArg(l) == IF l.arg.tipo = "none" THEN l.hoy ELSE Normalize(l.arg.ts)
EsLote(v) == v.tipo = "lote"
EsInsuficiente(v) ==
    v \in {ErrorVal("Datos insuficientes"),
           ErrorVal("Datos insuficientes para prediccion")}
\* the key under which the cached batch is held: _fecha_cache, or for the
\* single-station class the query date recorded in the batch itself
Clave ==
    IF clase = "multi" THEN fecha_cache
    ELSE IF ultima_prediccion = None THEN SinFecha
    ELSE Fecha(ultima_prediccion.fecha_consulta)
\* rows dated on or before the query date in the series of the call
FilasUsables(fc) ==
    IF clase = "multi" THEN Filas(HastaFecha(df, fc))
    ELSE Filas(HastaFecha(SimularDatosFaltantes(fc), fc))
\* the frame the station loop of the last call worked on
DfHoyDe(l) == HastaFecha(df, FechaLimite(FechaArg(l)))
EstacionesOk(l) ==
    {c \in Estaciones : ProcesarEstacion(c, DfHoyDe(l)).tipo = "ok"}
Contiene(lote, pred) ==
    \E i \in 1..Len(lote.predicciones_estaciones) :
        lote.predicciones_estaciones[i] = pred
\* a call of the multi-station predictor that got past the row-count check
PasoFilasMulti ==
    /\ clase = "multi" /\ HuboLlamada /\ ArgValido(ret) /\ ret.fresco
    /\ ~DatosInsuficientesMulti(DfHoyDe(ret))

\* C1: a batch returned for query date d was computed for d, never for
\* another date (stated for both predictor classes).
C1_LoteDeLaFechaPedida ==
    (HuboLlamada /\ ArgValido(ret) /\ EsLote(ret.valor))
        => calculada_para = FechaArg(ret)

\* C3: a call with forzar_recalculo = False for the same date as the call
\* before it, which returned a batch without forcing, returns the identical
\* batch: it is a cache hit, computes nothing and draws no noise.
C3_SegundaLlamadaIdentica ==
    [][(/\ ret'.turno # ret.turno
        /\ ~ret'.forzar /\ ~ret.forzar
        /\ ArgValido(ret) /\ ArgValido(ret')
        /\ EsLote(ret.valor)
        /\ FechaArg(ret') = FechaArg(ret))
       => (/\ ret'.valor = ret.valor
           /\ ~ret'.fresco
           /\ ret'.ruido = <<>>)]_vars

\* C3 witness: an unforced call answered from the cache with the batch that
\* was computed for its own date.
C3_Witness ==
    /\ HuboLlamada /\ ~ret.forzar /\ ~ret.fresco /\ EsLote(ret.valor)
    /\ ArgValido(ret) /\ calculada_para = FechaArg(ret)

\* C4: the cache changes only in a call that computed a batch; it then holds
\* that batch under the call's normalized date, and the call was forced, or
\* asked for a date other than the cached key, or found the cache empty.
C4_CacheUltimoCalculo ==
    [][/\ (ultima_prediccion' # ultima_prediccion \/ Clave' # Clave)
            => (/\ ret'.turno # ret.turno
                /\ ret'.fresco /\ EsLote(ret'.valor)
                /\ (ret'.forzar \/ ultima_prediccion = None
                        \/ Clave # FechaArg(ret')))
       /\ (ret'.turno # ret.turno /\ ret'.fresco /\ EsLote(ret'.valor))
            => (/\ ultima_prediccion' = ret'.valor
                /\ Clave' = FechaArg(ret'))]_vars

\* C4 witness: an unforced call computed a batch, which is now the cache
\* entry under the call's date.
C4_Witness ==
    /\ HuboLlamada /\ ret.fresco /\ EsLote(ret.valor) /\ ~ret.forzar
    /\ ultima_prediccion = ret.valor
    /\ Clave = FechaArg(ret)
    /\ FechaArg(ret) = Dias(107)

\* C5: a returned batch has fecha_prediccion = normalized query date + 1 day
\* and fecha_consulta = normalized query date.
C5_FechaPrediccionMasUno ==
    (HuboLlamada /\ ArgValido(ret) /\ EsLote(ret.valor))
        => /\ ret.valor.fecha_prediccion = DateOf(FechaArg(ret) + Dias(1))
           /\ ret.valor.fecha_consulta = DateOf(FechaArg(ret))

\* C6: predecir answers "insufficient data" exactly when fewer than 50 rows
\* dated on or before the query date remain.
C6_InsuficienteSiiMenosDe50 ==
    (HuboLlamada /\ ArgValido(ret))
        => (EsInsuficiente(ret.valor) <=> FilasUsables(FechaArg(ret)) < 50)

\* C7: a station that fails does not take the others with it: the call does
\* not abort, and every station that succeeds on its own is in the batch.
C7_FalloSoloQuitaEsaEstacion ==
    PasoFilasMulti
        => /\ ret.valor.tipo # "excepcion"
           /\ \A c \in EstacionesOk(ret) :
                /\ EsLote(ret.valor)
                /\ Contiene(ret.valor, ProcesarEstacion(c, DfHoyDe(ret)).pred)

\* C7 witness: one station raised inside its try block, another succeeded
\* and is in the returned batch.
C7_Witness ==
    /\ PasoFilasMulti
    /\ \E c \in Estaciones : ProcesarEstacion(c, DfHoyDe(ret)).tipo = "excepcion"
    /\ \E c \in Estaciones : ProcesarEstacion(c, DfHoyDe(ret)).tipo = "continue"
    /\ EstacionesOk(ret) # {}
    /\ EsLote(ret.valor)

\* C8: past the row-count check, the answer is "no predictions generated"
\* exactly when no station produced a result; otherwise the batch is cached
\* and returned, and it holds at least one station result.
C8_SinPrediccionesSiiCero ==
    PasoFilasMulti
        => /\ (ret.valor = ErrorVal("No se generaron predicciones"))
                <=> (EstacionesOk(ret) = {})
           /\ EstacionesOk(ret) # {}
                => /\ EsLote(ret.valor)
                   /\ ultima_prediccion = ret.valor
                   /\ Len(ret.valor.predicciones_estaciones) >= 1
                   /\ Len(ret.valor.predicciones_estaciones)
                        = Cardinality(EstacionesOk(ret))

\* C8 witness: a batch with exactly one station result was cached and
\* returned.
C8_Witness ==
    /\ PasoFilasMulti
    /\ Cardinality(EstacionesOk(ret)) = 1
    /\ EsLote(ret.valor) /\ ultima_prediccion = ret.valor

\* C8 second case: every station failed and the error value was returned.
C8_WitnessCero ==
    /\ PasoFilasMulti
    /\ EstacionesOk(ret) = {}
    /\ ret.valor = ErrorVal("No se generaron predicciones")

\* C9: no call of predecir ends with an exception reaching the caller.
C9_NuncaExcepcion ==
    HuboLlamada => ret.valor.tipo # "excepcion"

\* the tier the table of the risk classification gives a temperature
CumpleNivel(nivel, t) ==
    CASE nivel = "MUY ALTO" -> t <= -20
      [] nivel = "ALTO"     -> -20 < t /\ t <= 0
      [] nivel = "MEDIO"    -> 0 < t /\ t <= 20
      [] nivel = "BAJO"     -> 20 < t /\ t <= 40
      [] nivel = "MUY BAJO" -> t > 40
Niveles == {"MUY ALTO", "ALTO", "MEDIO", "BAJO", "MUY BAJO"}

\* C10: every temperature gets exactly one tier, the one of the table, and
\* both predictor classes give the same tier.
C10_RiesgoParticion ==
    riesgo_multi # SinClasificar
        => /\ Cardinality({n \in Niveles : CumpleNivel(n, temperatura)}) = 1
           /\ riesgo_multi \in Niveles
           /\ CumpleNivel(riesgo_multi, temperatura)
           /\ riesgo_simple = riesgo_multi

\* C10 witness: the boundary temperature 0 C has been classified ALTO.
C10_Witness ==
    temperatura = 0 /\ riesgo_multi = "ALTO" /\ riesgo_simple = "ALTO"

\* callers that are past the cache check and have not yet returned
Calculando(h) == pc[h] \in {"calcular", "guardar_prediccion", "guardar_fecha"}

\* C2: of the concurrent unforced callers for one date, at most one is
\* running the fresh computation at any time.
C2_UnSoloCalculoPorFecha ==
    \A h1, h2 \in Hilos :
        (h1 # h2 /\ Calculando(h1) /\ Calculando(h2))
            => h_fecha[h1] # h_fecha[h2]

\* ------------------------------------------------------------------------
\* Spatial interpolation (interpolar_idw, interpolar_probabilidad_helada)
\*
\* Coordinates are integers counting 0.00005 degrees; a distance is an
\* integer counting 0.05 m, so that the factor 111 km per degree of the code
\* is the factor 111 here.  A weight is kept in units of 1 / EscalaPeso.
\* ------------------------------------------------------------------------
\* None in the lat / lon position of a station result
SinCoordenada == -1000000
\* distancia < 0.01 (km)
UmbralCercano == 200
EscalaPeso == 100000000

Abs(x) == IF x < 0 THEN 0 - x ELSE x

\* np.cos(np.radians(lat)) in thousandths, for latitudes 4.05 .. 5.43 degrees
CosMilesimas(lat) == IF lat <= 95900 THEN 997 ELSE 996

RECURSIVE RaizEntre(_, _, _)
\* the largest r in lo .. hi - 1 with r * r <= x
RaizEntre(x, lo, hi) ==
    IF hi - lo <= 1 THEN lo
    ELSE LET mid == (lo + hi) \div 2
         IN  IF mid * mid <= x THEN RaizEntre(x, mid, hi) ELSE RaizEntre(x, lo, mid)
\* np.sqrt, to the resolution of a distance
Raiz(x) == RaizEntre(x, 0, 32768)

\* dlat, dlon and distancia of one station result
Distancia(p, lat, lon) ==
    LET dlat == Abs(p.lat - lat) * 111
        dlon == (Abs(p.lon - lon) * 111 * CosMilesimas(lat)) \div 1000
    IN  Raiz(dlat * dlat + dlon * dlon)

RECURSIVE Potencia(_, _)
\* distancia ** potencia
Potencia(b, e) == IF e = 0 THEN 1 ELSE b * Potencia(b, e - 1)

\* peso = 1 / (distancia ** potencia)
Peso(distancia, potencia) == EscalaPeso \div Potencia(distancia, potencia)

\* a returned number: the quotient num / den
Valor(num, den) == [tipo |-> "valor", num |-> num, den |-> den]

\* p['lat'] is None or p['lon'] is None
SinCoordenadas(p) == p.lat = SinCoordenada \/ p.lon = SinCoordenada

\* variant: without stations the routine answers 0 instead of None
RetornoIdw_cero(ponderada, pesos_total) ==
    IF pesos_total > 0 THEN Valor(ponderada, pesos_total) ELSE Valor(0, 1)

\* return temp_ponderada / pesos_total if pesos_total > 0 else None
RetornoIdw(ponderada, pesos_total) ==
    IF pesos_total > 0 THEN Valor(ponderada, pesos_total) ELSE None

RECURSIVE BucleIdw(_, _, _, _, _, _, _)
\* the for loop of interpolar_idw from position i on
BucleIdw(lat, lon, predicciones, potencia, i, pesos_total, temp_ponderada) ==
    IF i > Len(predicciones) THEN RetornoIdw(temp_ponderada, pesos_total)
    ELSE LET p == predicciones[i]
         IN  IF SinCoordenadas(p)
             THEN BucleIdw(lat, lon, predicciones, potencia, i + 1,
                           pesos_total, temp_ponderada)
             ELSE LET distancia == Distancia(p, lat, lon)
                  IN  IF distancia < UmbralCercano
                      THEN Valor(p.temperatura_predicha, 1)
                      ELSE LET peso == Peso(distancia, potencia)
                           IN  BucleIdw(lat, lon, predicciones, potencia, i + 1,
                                        pesos_total + peso,
                                        temp_ponderada + peso * p.temperatura_predicha)

InterpolarIdw(lat, lon, predicciones, potencia) ==
    BucleIdw(lat, lon, predicciones, potencia, 1, 0, 0)

\* variant: the frost routine takes the shortcut within 0.1 km
CercanaProb_amplia(distancia) == distancia < 2000

\* distancia < 0.01 in interpolar_probabilidad_helada
CercanaProb(distancia) == distancia < UmbralCercano

RECURSIVE BucleProbabilidad(_, _, _, _, _, _, _)
\* the for loop of interpolar_probabilidad_helada from position i on
BucleProbabilidad(lat, lon, predicciones, potencia, i, pesos_total, prob_ponderada) ==
    IF i > Len(predicciones)
    THEN IF pesos_total > 0 THEN Valor(prob_ponderada, pesos_total) ELSE None
    ELSE LET p == predicciones[i]
         IN  IF p.lat = SinCoordenada \/ p.lon = SinCoordenada
             THEN BucleProbabilidad(lat, lon, predicciones, potencia, i + 1,
                                    pesos_total, prob_ponderada)
             ELSE LET distancia == Distancia(p, lat, lon)
                  IN  IF CercanaProb(distancia)
                      THEN Valor(p.probabilidad_helada, 1)
                      ELSE LET peso == Peso(distancia, potencia)
                           IN  BucleProbabilidad(lat, lon, predicciones, potencia, i + 1,
                                                 pesos_total + peso,
                                                 prob_ponderada + peso * p.probabilidad_helada)

InterpolarProbabilidadHelada(lat, lon, predicciones, potencia) ==
    BucleProbabilidad(lat, lon, predicciones, potencia, 1, 0, 0)

\* The station results of the interpolation runs: two stations 100 m apart,
\* a third at the place of the first, one without lat and one without lon
ResultadoEstacion(codigo, temp, prob, lat, lon) ==
    [codigo |-> codigo, temperatura_predicha |-> temp, probabilidad_helada |-> prob,
     lat |-> lat, lon |-> lon]
LatBase == 95600
LonBase == -1485600
ResultadosIdw ==
    {ResultadoEstacion("21205880", 15, 731, LatBase, LonBase),
     ResultadoEstacion("21206060", 35, 269, LatBase, LonBase + 18),
     ResultadoEstacion("21205420", -10, 881, LatBase, LonBase),
     ResultadoEstacion("21205960", 52, 119, SinCoordenada, LonBase + 3),
     ResultadoEstacion("21205980", -25, 881, LatBase + 1, SinCoordenada)}

\* the lists of at most n distinct results
RECURSIVE ListasHasta(_)
ListasHasta(n) ==
    IF n = 0 THEN {<<>>}
    ELSE LET menores == ListasHasta(n - 1)
         IN  menores \cup
             {Append(l, r) : l \in {m \in menores : Len(m) = n - 1},
                             r \in ResultadosIdw}
SinRepetir(l) == \A i, j \in 1..Len(l) : i # j => l[i] # l[j]
ListasResultados == {l \in ListasHasta(MaxResultados) : SinRepetir(l)}

LatsConsulta == LatBase..(LatBase + MaxDLat)
LonsConsulta == (LonBase - 1)..(LonBase + MaxDLon)
\* the powers of the inverse distance that are tried (the map uses 2)
Potencias == {1, 2}

InitIdw ==
    /\ clase = "multi"
    /\ df_tmin_desde = [c \in Estaciones |-> 1]
    /\ cov_vacia = FALSE
    /\ artefactos = ArtefactosBuenos
    /\ ahora = RelojInicial
    /\ ultima_prediccion = None /\ fecha_cache = SinFecha /\ calculada_para = SinFecha
    /\ ret = SinLlamada
    /\ temperatura = 0 /\ riesgo_multi = SinClasificar /\ riesgo_simple = SinClasificar
    /\ pc = [h \in Hilos |-> "libre"]
    /\ h_fecha = [h \in Hilos |-> SinFecha]
    /\ h_resultado = [h \in Hilos |-> None]
    /\ notif = None
    /\ geo = Reposo /\ relleno = Reposo /\ feat = Reposo
    /\ BotEnReposo
    /\ \E lat \in LatsConsulta, lon \in LonsConsulta, potencia \in Potencias,
          predicciones \in ListasResultados :
         idw = [hecho |-> FALSE, lat |-> lat, lon |-> lon, potencia |-> potencia,
                predicciones |-> predicciones, temp |-> None, prob |-> None]

FueraDeIdw ==
    <<entorno, ahora, ultima_prediccion, fecha_cache, calculada_para, ret,
      vars_riesgo, vars_hilos, notif, geo, relleno, feat, vars_bot>>

\* app.py: a click inside the region is interpolated by both routines
Interpolar ==
    /\ ~idw.hecho
    /\ idw' = [idw EXCEPT
                 !.hecho = TRUE,
                 !.temp = InterpolarIdw(idw.lat, idw.lon, idw.predicciones, idw.potencia),
                 !.prob = InterpolarProbabilidadHelada(idw.lat, idw.lon,
                                                       idw.predicciones, idw.potencia)]
    /\ UNCHANGED FueraDeIdw

\* the user clicks another point of the map
OtroClick ==
    /\ idw.hecho
    /\ \E lat \in LatsConsulta, lon \in LonsConsulta :
         idw' = [idw EXCEPT !.hecho = FALSE, !.lat = lat, !.lon = lon,
                            !.temp = None, !.prob = None]
    /\ UNCHANGED FueraDeIdw

NextIdw == Interpolar \/ OtroClick

SpecIdw == InitIdw /\ [][NextIdw]_vars

\* ------------------------------------------------------------------------
\* Properties of the interpolation
\* ------------------------------------------------------------------------
\* a returned number equal to v
EsValor(r, v) == r # None /\ r.num = v * r.den
ConCoordenadas(p) == ~SinCoordenadas(p)
\* the results of the query that lie within 0.1 km of the clicked point
A100m ==
    {i \in 1..Len(idw.predicciones) :
        /\ ConCoordenadas(idw.predicciones[i])
        /\ Distancia(idw.predicciones[i], idw.lat, idw.lon) < 2000}
\* the results with the frost probability in the place of the temperature
ConProbabilidad(predicciones) ==
    [i \in 1..Len(predicciones) |->
        [predicciones[i] EXCEPT !.temperatura_predicha =
                                    predicciones[i].probabilidad_helada]]
Elegibles(predicciones) == SelectSeq(predicciones, ConCoordenadas)

\* C11: when the clicked point is less than 0.1 km from a station with
\* coordinates, both interpolations return exactly the value of such a
\* station, for every power.
C11_AtajoA100m ==
    (idw.hecho /\ A100m # {})
        => /\ \E i \in A100m :
                EsValor(idw.temp, idw.predicciones[i].temperatura_predicha)
           /\ \E i \in A100m :
                EsValor(idw.prob, idw.predicciones[i].probabilidad_helada)

\* C12: results without lat or without lon contribute nothing: the answer is
\* the one for the list without them, and it is None exactly when no result
\* has both coordinates (the empty list included).
C12_SinCoordenadasNoCuenta ==
    idw.hecho
        => /\ idw.temp = InterpolarIdw(idw.lat, idw.lon,
                                       Elegibles(idw.predicciones), idw.potencia)
           /\ (idw.temp = None) <=> (Len(Elegibles(idw.predicciones)) = 0)
           /\ idw.temp # None => idw.temp.den > 0

\* C12 witness: a list with a result lacking lat, one lacking lon and one
\* complete result was interpolated to a weighted average.
C12_Witness ==
    /\ idw.hecho
    /\ \E i \in 1..Len(idw.predicciones) : idw.predicciones[i].lat = SinCoordenada
    /\ \E i \in 1..Len(idw.predicciones) : idw.predicciones[i].lon = SinCoordenada
    /\ Len(Elegibles(idw.predicciones)) = 1
    /\ idw.temp # None /\ idw.temp.den > 1

\* C12 second case: a non-empty list without any complete result gave None.
C12_WitnessNone ==
    /\ idw.hecho
    /\ Len(idw.predicciones) = 2
    /\ Len(Elegibles(idw.predicciones)) = 0
    /\ idw.temp = None

\* C13: the frost-probability interpolation is the temperature interpolation
\* applied to the probabilities: same skipped results, same shortcut, same
\* weights, and None in the same cases.
C13_MismaRutina ==
    idw.hecho
        => /\ idw.prob = InterpolarIdw(idw.lat, idw.lon,
                                       ConProbabilidad(idw.predicciones), idw.potencia)
           /\ (idw.prob = None) <=> (idw.temp = None)
           /\ (idw.prob # None /\ idw.temp # None) => idw.prob.den = idw.temp.den

\* C13 witness: a click between 10 m and 100 m from a station, with two
\* complete results and one incomplete, was interpolated by both routines to
\* weighted averages over the same total weight.
C13_Witness ==
    /\ idw.hecho
    /\ A100m # {}
    /\ Len(idw.predicciones) = 3
    /\ Len(Elegibles(idw.predicciones)) = 2
    /\ idw.temp # None /\ idw.prob # None
    /\ idw.temp.den > 1 /\ idw.prob.den = idw.temp.den

\* ------------------------------------------------------------------------
\* Point in polygon (punto_en_poligono of app.py)
\*
\* Coordinates of this section are integers counting halves, so the ring
\* (0,0),(0,2),(2,2),(2,0) is (0,0),(0,4),(4,4),(4,0) and the point (1,1) is
\* (2,2).  A vertex is a pair <<lat, lon>>.
\* ------------------------------------------------------------------------
Rectangulo == << <<0, 0>>, <<0, 4>>, <<4, 4>>, <<4, 0>> >>
\* a ring of n vertices started at another vertex
Rotado(ring, k) == [i \in 1..Len(ring) |-> ring[((i + k - 1) % Len(ring)) + 1]]
Invertido(ring) == [i \in 1..Len(ring) |-> ring[Len(ring) + 1 - i]]
Rombo == << <<0, 2>>, <<2, 4>>, <<4, 2>>, <<2, 0>> >>
Triangulo == << <<0, 0>>, <<4, 4>>, <<4, 0>> >>
\* a ring with a slanted edge followed by an edge of constant lon
Trapecio == << <<0, 0>>, <<4, 4>>, <<2, 4>>, <<2, 0>> >>
Poligonos ==
    {Rotado(Rectangulo, k) : k \in 0..3}
        \cup {Rotado(Invertido(Rectangulo), k) : k \in 0..3}
        \cup {Rombo, Invertido(Rombo), Triangulo, Invertido(Triangulo)}
        \cup {Trapecio, Invertido(Trapecio)}

\* a local variable that has not been assigned
SinAsignar == [tipo |-> "sin asignar"]

\* variant: the ray test does not look at which side of the edge x is on
CruzaBanda_sin_x(x, y, p1, p2) ==
    /\ y > Min(p1[2], p2[2])
    /\ y <= Max(p1[2], p2[2])

\* variant: the lower end of the band is not strict
CruzaBanda_no_estricta(x, y, p1, p2) ==
    /\ y >= Min(p1[2], p2[2])
    /\ y <= Max(p1[2], p2[2])
    /\ x <= Max(p1[1], p2[1])

\* the three nested conditions on y and x for the edge p1 -> p2
CruzaBanda(x, y, p1, p2) ==
    /\ y > Min(p1[2], p2[2])
    /\ y <= Max(p1[2], p2[2])
    /\ x <= Max(p1[1], p2[1])

\* xinters = (y - p1_lon) * (p2_lat - p1_lat) / (p2_lon - p1_lon) + p1_lat,
\* kept as the quotient num / den
XInters(y, p1, p2) ==
    LET den == p2[2] - p1[2]
    IN  [tipo |-> "valor", num |-> (y - p1[2]) * (p2[1] - p1[1]) + p1[1] * den,
         den |-> den]

\* x <= xinters
MenorIgual(x, xinters) ==
    IF xinters.den > 0 THEN x * xinters.den <= xinters.num
    ELSE x * xinters.den >= xinters.num

RECURSIVE BuclePoligono(_, _, _, _, _, _, _)
\* the for loop from iteration i on; xinters keeps the value of the last
\* iteration that assigned it, and reading it unassigned raises
BuclePoligono(x, y, poligono, i, p1, xinters, dentro) ==
    IF i > Len(poligono) THEN dentro
    ELSE LET p2 == poligono[(i % Len(poligono)) + 1]
             xinters2 == IF CruzaBanda(x, y, p1, p2) /\ p1[2] # p2[2]
                         THEN XInters(y, p1, p2) ELSE xinters
         IN  IF ~CruzaBanda(x, y, p1, p2)
             THEN BuclePoligono(x, y, poligono, i + 1, p2, xinters2, dentro)
             ELSE IF p1[1] = p2[1]
             THEN BuclePoligono(x, y, poligono, i + 1, p2, xinters2, ~dentro)
             ELSE IF xinters2 = SinAsignar
             THEN Excepcion("UnboundLocalError")
             ELSE IF MenorIgual(x, xinters2)
             THEN BuclePoligono(x, y, poligono, i + 1, p2, xinters2, ~dentro)
             ELSE BuclePoligono(x, y, poligono, i + 1, p2, xinters2, dentro)

PuntoEnPoligono(lat, lon, poligono) ==
    BuclePoligono(lat, lon, poligono, 1, poligono[1], SinAsignar, FALSE)

CoordsClick == (0 - 1)..MaxCoordClick

InitPoligono ==
    /\ clase = "multi"
    /\ df_tmin_desde = [c \in Estaciones |-> 1]
    /\ cov_vacia = FALSE
    /\ artefactos = ArtefactosBuenos
    /\ ahora = RelojInicial
    /\ ultima_prediccion = None /\ fecha_cache = SinFecha /\ calculada_para = SinFecha
    /\ ret = SinLlamada
    /\ temperatura = 0 /\ riesgo_multi = SinClasificar /\ riesgo_simple = SinClasificar
    /\ pc = [h \in Hilos |-> "libre"]
    /\ h_fecha = [h \in Hilos |-> SinFecha]
    /\ h_resultado = [h \in Hilos |-> None]
    /\ notif = None
    /\ idw = Reposo /\ relleno = Reposo /\ feat = Reposo
    /\ BotEnReposo
    /\ \E lat \in CoordsClick, lon \in CoordsClick, poligono \in Poligonos :
         geo = [hecho |-> FALSE, lat |-> lat, lon |-> lon, poligono |-> poligono,
                dentro |-> None, previo |-> None, veces |-> 0]

FueraDePoligono ==
    <<entorno, ahora, ultima_prediccion, fecha_cache, calculada_para, ret,
      vars_riesgo, vars_hilos, notif, idw, relleno, feat, vars_bot>>

\* the first query of the clicked point
ConsultarPunto ==
    /\ ~geo.hecho
    /\ geo' = [geo EXCEPT !.hecho = TRUE, !.veces = 1,
                          !.dentro = PuntoEnPoligono(geo.lat, geo.lon, geo.poligono)]
    /\ UNCHANGED FueraDePoligono

\* the same point is queried again
RepetirConsulta ==
    /\ geo.hecho
    /\ geo.veces < MaxConsultas
    /\ geo' = [geo EXCEPT !.veces = geo.veces + 1,
                          !.previo = geo.dentro,
                          !.dentro = PuntoEnPoligono(geo.lat, geo.lon, geo.poligono)]
    /\ UNCHANGED FueraDePoligono

NextPoligono == ConsultarPunto \/ RepetirConsulta

SpecPoligono == InitPoligono /\ [][NextPoligono]_vars

\* a point on an edge of the rectangle
EnBordeRectangulo(lat, lon) ==
    /\ lat \in 0..4 /\ lon \in 0..4
    /\ (lat \in {0, 4} \/ lon \in {0, 4})

\* C14: for the ring (0,0),(0,2),(2,2),(2,0) the point (1,1) is inside, the
\* point (3,3) is outside, and a point on an edge gets a boolean answer that
\* is the same on every repeated query.
C14_RectanguloDentroFuera ==
    (geo.hecho /\ geo.poligono = Rectangulo)
        => /\ geo.dentro \in BOOLEAN
           /\ (geo.lat = 2 /\ geo.lon = 2) => geo.dentro = TRUE
           /\ (geo.lat = 6 /\ geo.lon = 6) => geo.dentro = FALSE
           /\ (geo.veces >= 2 /\ EnBordeRectangulo(geo.lat, geo.lon))
                => geo.dentro = geo.previo

\* C14 witness: the centre of the rectangle has been found inside.
C14_Witness ==
    /\ geo.hecho /\ geo.poligono = Rectangulo
    /\ geo.lat = 2 /\ geo.lon = 2 /\ geo.dentro = TRUE

\* C14 edge case: a point on an edge was queried three times with one answer.
C14_WitnessBorde ==
    /\ geo.hecho /\ geo.poligono = Rectangulo
    /\ geo.lat = 4 /\ geo.lon = 2
    /\ geo.veces = 3 /\ geo.dentro = geo.previo /\ geo.dentro \in BOOLEAN

\* ------------------------------------------------------------------------
\* Gap filler row by row (PredictorHeladas._simular_datos_faltantes)
\*
\* self.df is a frame of consecutive days with its set of columns; the
\* frame returned is the copied rows followed by the simulated rows.
\* ------------------------------------------------------------------------
\* the TMax columns of the CSV
ColTMax(d) == IF cov_vacia THEN NaN ELSE 150 + ((d * 11) % 40)
\* the value of a column of the CSV on a day
Columna(col, d) ==
    CASE col = "TMin" -> ColTMin(CodigoMadrid, d)
      [] col = "PREC" -> ColCov(d)
      [] col = "TMax" -> ColTMax(d)
ColumnasCsv == {"Fecha", "TMin", "PREC", "TMax"}

RECURSIVE SumaColumna(_, _)
SumaColumna(col, S) ==
    IF S = {} THEN 0
    ELSE LET d == CHOOSE e \in S : TRUE
         IN  Columna(col, d) + SumaColumna(col, S \ {d})

\* Series.mean(): the NaN values are skipped, and the mean of none is NaN
MediaColumna(col, S) ==
    LET validos == {d \in S : Columna(col, d) # NaN}
    IN  IF validos = {} THEN NaN
        ELSE SumaColumna(col, validos) \div Cardinality(validos)

\* variant: the mean of the month is used for every date
Promedio_mensual(col, m, mes, dia) ==
    MediaColumna(col, {h \in DiasDelMes(mes) : h \in m.ini..m.fin})

\* groupby(['Mes', 'Dia'])[col].mean() looked up at (mes, dia), or the mean
\* of the rows of the month when the history has no such calendar day
Promedio(col, m, mes, dia) ==
    LET mismo_dia == {h \in DiasDelDia(mes, dia) : h \in m.ini..m.fin}
        mismo_mes == {h \in DiasDelMes(mes) : h \in m.ini..m.fin}
    IN  IF mismo_dia # {} THEN MediaColumna(col, mismo_dia)
        ELSE MediaColumna(col, mismo_mes)

\* a value plus a draw of noise (NaN stays NaN)
MasRuido(v, r) == IF v = NaN THEN NaN ELSE v + r

\* nueva_fila for one missing date: noise goes to the target only
NuevaFila(m, d, r) ==
    [Fecha |-> Fecha(d),
     TMin |-> MasRuido(Promedio("TMin", m, Mes(d), Dia(d)), r),
     PREC |-> Promedio("PREC", m, Mes(d), Dia(d)),
     TMax |-> Promedio("TMax", m, Mes(d), Dia(d))]

\* variant: the range of missing dates stops the day before fecha_hasta
FechasFaltantes_sin_ultimo(ultima_fecha, fecha_hasta) ==
    [i \in 1..Max(0, (fecha_hasta - (ultima_fecha + Dias(1))) \div Dias(1)) |->
        DateOf(ultima_fecha) + i]

\* pd.date_range(start=ultima_fecha + 1 day, end=fecha_hasta, freq='D'):
\* the days, in order
FechasFaltantes(ultima_fecha, fecha_hasta) ==
    [i \in 1..Max(0, (fecha_hasta - (ultima_fecha + Dias(1))) \div Dias(1) + 1) |->
        DateOf(ultima_fecha) + i]

\* a frame: the copied rows of the CSV, the appended rows and the columns
Frame(marco, nuevas, columnas) ==
    [marco |-> marco, nuevas |-> nuevas, columnas |-> columnas]

\* df.sort_values('Fecha') of the appended rows (insertion sort)
RECURSIVE OrdenarPorFecha(_)
Insertar(fila, filas) ==
    LET antes == SelectSeq(filas, LAMBDA f : f.Fecha <= fila.Fecha)
        despues == SelectSeq(filas, LAMBDA f : f.Fecha > fila.Fecha)
    IN  antes \o <<fila>> \o despues
OrdenarPorFecha(filas) ==
    IF filas = <<>> THEN <<>>
    ELSE Insertar(filas[Len(filas)], OrdenarPorFecha(SubSeq(filas, 1, Len(filas) - 1)))

\* variant: the columns Mes and Dia are added to self.df itself
DfTrasSimular_sin_copia(self_df, fecha_hasta) ==
    IF fecha_hasta <= Fecha(self_df.marco.fin) THEN self_df
    ELSE [self_df EXCEPT !.columnas = self_df.columnas \cup {"Mes", "Dia"}]

\* self.df after the call: the work was done on df_extendido = self.df.copy()
DfTrasSimular(self_df, fecha_hasta) == self_df

\* _simular_datos_faltantes(fecha_hasta) on a given self.df, with the noise
\* drawn for each missing day: the frame returned
SimularDatos(self_df, fecha_hasta, ruido) ==
    LET ultima_fecha == Fecha(self_df.marco.fin)
        fechas_faltantes == FechasFaltantes(ultima_fecha, fecha_hasta)
        nuevas_filas == [i \in 1..Len(fechas_faltantes) |->
                            NuevaFila(self_df.marco, fechas_faltantes[i],
                                      ruido[fechas_faltantes[i]])]
    IN  IF fecha_hasta <= ultima_fecha THEN self_df
        ELSE Frame(self_df.marco, OrdenarPorFecha(nuevas_filas),
                   (self_df.columnas \cup {"Mes", "Dia"}) \ {"Mes", "Dia"})

\* the histories the gap filler is run on, up to 10 January 2024 (day 375),
\* 27 February 2024 (day 423) and 15 April 2023 (day 105)
Historias == {Marco(5, 375), Marco(20, 375), Marco(45, 423), Marco(1, 105)}
FechasHasta(m) ==
    {Fecha(m.fin) + k * Dias(1) : k \in (0 - 1)..MaxHueco}
        \cup {Fecha(m.fin) + 1, Fecha(m.fin) + Dias(2) + 1}
\* the days for which a call draws noise
DiasNuevos(m, fecha_hasta) ==
    {d \in (m.fin + 1)..(m.fin + MaxHueco + 1) : Fecha(d) <= fecha_hasta}

InitRelleno ==
    /\ clase = "simple"
    /\ df_tmin_desde = [c \in Estaciones |-> 1]
    /\ cov_vacia = FALSE
    /\ artefactos = ArtefactosBuenos
    /\ ahora = RelojInicial
    /\ ultima_prediccion = None /\ fecha_cache = SinFecha /\ calculada_para = SinFecha
    /\ ret = SinLlamada
    /\ temperatura = 0 /\ riesgo_multi = SinClasificar /\ riesgo_simple = SinClasificar
    /\ pc = [h \in Hilos |-> "libre"]
    /\ h_fecha = [h \in Hilos |-> SinFecha]
    /\ h_resultado = [h \in Hilos |-> None]
    /\ notif = None
    /\ idw = Reposo /\ geo = Reposo /\ feat = Reposo
    /\ BotEnReposo
    /\ \E m \in Historias :
         \E fecha_hasta \in FechasHasta(m) :
            relleno = [hecho |-> FALSE, df_antes |-> Frame(m, <<>>, ColumnasCsv),
                       df |-> Frame(m, <<>>, ColumnasCsv), fecha_hasta |-> fecha_hasta,
                       ruido |-> <<>>, retorno |-> None]

FueraDeRelleno ==
    <<entorno, ahora, ultima_prediccion, fecha_cache, calculada_para, ret,
      vars_riesgo, vars_hilos, notif, idw, geo, feat, vars_bot>>

\* one call of _simular_datos_faltantes
Simular ==
    /\ ~relleno.hecho
    /\ \E ruido \in [DiasNuevos(relleno.df.marco, relleno.fecha_hasta) -> Ruido] :
         \E salida \in {SimularDatos(relleno.df, relleno.fecha_hasta, ruido)} :
            relleno' = [relleno EXCEPT
                          !.hecho = TRUE,
                          !.df_antes = relleno.df,
                          !.df = DfTrasSimular(relleno.df, relleno.fecha_hasta),
                          !.ruido = ruido,
                          !.retorno = salida]
    /\ UNCHANGED FueraDeRelleno

\* the next call asks for another date
OtraFechaHasta ==
    /\ relleno.hecho
    /\ \E fecha_hasta \in FechasHasta(relleno.df.marco) :
         relleno' = [relleno EXCEPT !.hecho = FALSE, !.fecha_hasta = fecha_hasta,
                                    !.ruido = <<>>, !.retorno = None]
    /\ UNCHANGED FueraDeRelleno

NextRelleno == Simular \/ OtraFechaHasta

SpecRelleno == InitRelleno /\ [][NextRelleno]_vars

\* ------------------------------------------------------------------------
\* Properties of the gap filler
\* ------------------------------------------------------------------------
UltimaFechaAntes == Fecha(relleno.df_antes.marco.fin)
\* the historical days with the month and day of d, read off the calendar
\* of each historical row
DiasIguales(m, d) ==
    LET mes == Mes(d)
        dia == Dia(d)
    IN  {h \in m.ini..m.fin : Mes(h) = mes /\ Dia(h) = dia}
DiasMismoMes(m, d) ==
    LET mes == Mes(d)
    IN  {h \in m.ini..m.fin : Mes(h) = mes}
\* the climatological mean the lookup must give
Climatologia(col, m, d) ==
    IF DiasIguales(m, d) # {} THEN MediaColumna(col, DiasIguales(m, d))
    ELSE MediaColumna(col, DiasMismoMes(m, d))

\* C15: a call with fecha_hasta on or before the last historical date
\* returns a frame equal to the history, and no call changes self.df.
C15_CopiaSinCambios ==
    relleno.hecho
        => /\ relleno.df = relleno.df_antes
           /\ relleno.fecha_hasta <= UltimaFechaAntes
                => relleno.retorno = relleno.df_antes

\* C15 witness: a call for the day before the last historical date returned
\* the history as it was.
C15_Witness ==
    /\ relleno.hecho
    /\ relleno.fecha_hasta < UltimaFechaAntes
    /\ relleno.retorno = relleno.df_antes
    /\ relleno.df = relleno.df_antes

\* C15 second case: a call that appended rows left self.df as it was.
C15_WitnessExtendida ==
    /\ relleno.hecho
    /\ Len(relleno.retorno.nuevas) = 2
    /\ relleno.df = relleno.df_antes
    /\ relleno.retorno # relleno.df_antes

\* C16: for fecha_hasta after the last historical date the frame returned is
\* the history followed by one row for each calendar day after the last
\* date up to fecha_hasta, in order: no gap, no duplicate.
C16_FilasContiguas ==
    (relleno.hecho /\ relleno.fecha_hasta > UltimaFechaAntes)
        => /\ relleno.retorno.marco = relleno.df_antes.marco
           /\ Len(relleno.retorno.nuevas)
                = DateOf(relleno.fecha_hasta) - relleno.df_antes.marco.fin
           /\ \A i \in 1..Len(relleno.retorno.nuevas) :
                relleno.retorno.nuevas[i].Fecha
                    = Fecha(relleno.df_antes.marco.fin + i)

\* C16 witness: the history ends on 10 January 2024, the call asks for 13
\* January 2024, and the rows added are those of 11, 12 and 13 January.
C16_Witness ==
    /\ relleno.hecho
    /\ relleno.df_antes.marco.fin = 375
    /\ Anio(375) = 2024 /\ Mes(375) = 1 /\ Dia(375) = 10
    /\ relleno.fecha_hasta = Fecha(378)
    /\ Len(relleno.retorno.nuevas) = 3
    /\ \A i \in 1..3 :
         LET d == DateOf(relleno.retorno.nuevas[i].Fecha)
         IN  Anio(d) = 2024 /\ Mes(d) = 1 /\ Dia(d) = 10 + i

\* C17: in every simulated row each covariate is the historical mean of its
\* column for the same month and day, or for the same month when the history
\* has no such calendar day; the target is the same lookup plus the noise
\* drawn for the row, and no other column carries noise.
C17_PromediosPorDia ==
    relleno.hecho
        => \A i \in 1..Len(relleno.retorno.nuevas) :
             LET fila == relleno.retorno.nuevas[i]
                 d == DateOf(fila.Fecha)
                 m == relleno.df_antes.marco
             IN  /\ fila.PREC = Climatologia("PREC", m, d)
                 /\ fila.TMax = Climatologia("TMax", m, d)
                 /\ fila.TMin = Climatologia("TMin", m, d) + relleno.ruido[d]
                 /\ relleno.ruido[d] \in Ruido

\* C17 witness: the rows of 28 February, 29 February and 1 March 2024 were
\* simulated from a history that has a 28 February and a 1 March but no 29
\* February.
C17_Witness ==
    /\ relleno.hecho
    /\ Len(relleno.retorno.nuevas) = 3
    /\ LET m == relleno.df_antes.marco
           d == DateOf(relleno.retorno.nuevas[2].Fecha)
       IN  /\ Mes(d) = 2 /\ Dia(d) = 29
           /\ DiasIguales(m, d) = {}
           /\ DiasMismoMes(m, d) # {}
           /\ DiasIguales(m, d - 1) # {}
           /\ DiasIguales(m, d + 1) # {}
           /\ relleno.retorno.nuevas[2].PREC = MediaColumna("PREC", DiasMismoMes(m, d))

\* ------------------------------------------------------------------------
\* The series predecir hands to feature construction
\* ------------------------------------------------------------------------
\* the frame the features of the last call were built from: df_hoy in the
\* multi-station class, df_hasta_hoy in the single-station class
SerieParaFeatures(l) ==
    IF clase = "multi" THEN DfHoyDe(l)
    ELSE HastaFecha(SimularDatosFaltantes(FechaArg(l)), FechaArg(l))
\* the last call computed and got as far as building features
LlegoAFeatures ==
    /\ HuboLlamada /\ ArgValido(ret) /\ ret.fresco
    /\ IF clase = "multi"
       THEN /\ ~DatosInsuficientesMulti(DfHoyDe(ret))
            /\ \E c \in Estaciones :
                 Filas(SinNaN(DfHoyDe(ret), c)) >= MinFilasEstacion
       ELSE ~EsInsuficiente(ret.valor)

\* C18: the series handed to feature construction has no row after the
\* query date, and when the query date is later than the last historical
\* date the series has been extended so that its last row is the query date.
C18_SerieHastaConsulta ==
    LlegoAFeatures
        => /\ SerieParaFeatures(ret).fin <= DateOf(FechaArg(ret))
           /\ FechaArg(ret) > Fecha(UltimoDia)
                => SerieParaFeatures(ret).fin = DateOf(FechaArg(ret))

\* ------------------------------------------------------------------------
\* Feature construction row by row: the lags, the rolling means and the
\* differences of _crear_features_temperatura, _crear_features_madrid and
\* _crear_features_unificado on an explicit series of target values.
\* Row i of the code (counted from 0) is position i + 1 of the sequence.
\* ------------------------------------------------------------------------
Diferencias == {1, 7, 30}

\* serie.shift(k) at position i
Shift(serie, k, i) == IF i - k >= 1 THEN serie[i - k] ELSE NaN

RECURSIVE SumaEntre(_, _, _)
\* sum of the positions a .. b of a series
SumaEntre(serie, a, b) == IF a > b THEN 0 ELSE serie[a] + SumaEntre(serie, a + 1, b)

\* variant: the window is taken on the series itself, current row included
MediaMovil_sin_shift(serie, w, i) ==
    IF i - w + 1 < 1 THEN NaN
    ELSE SumaEntre(serie, i - w + 1, i) \div w

\* serie.shift(1).rolling(window=w).mean() at position i: NaN until the
\* window holds w values of the shifted series
MediaMovil(serie, w, i) ==
    IF i - w < 1 THEN NaN
    ELSE SumaEntre(serie, i - w, i - 1) \div w

\* serie.diff(k) at position i
Diff(serie, k, i) == IF i - k >= 1 THEN serie[i] - serie[i - k] ELSE NaN

\* the row of df_out at position i
FilaFeatures(serie, i) ==
    [idx |-> i - 1,
     TMIN |-> serie[i],
     lag |-> [l \in Lags |-> Shift(serie, l, i)],
     ma |-> [w \in VentanasRolling |-> MediaMovil(serie, w, i)],
     diff |-> [k \in Diferencias |-> Diff(serie, k, i)]]

\* a row without NaN
FilaCompleta(fila) ==
    /\ \A l \in Lags : fila.lag[l] # NaN
    /\ \A w \in VentanasRolling : fila.ma[w] # NaN
    /\ \A k \in Diferencias : fila.diff[k] # NaN

\* df_out before dropna()
DfOut(serie) == [i \in 1..Len(serie) |-> FilaFeatures(serie, i)]
\* df_out.dropna()
DropNa(filas) == SelectSeq(filas, FilaCompleta)

\* predictor.py: _crear_features_temperatura(df_temp), then .dropna()
CrearFeaturesTemperatura(serie) == DfOut(serie)
\* predictor_multiestacion.py: both functions return df_out.dropna()
CrearFeaturesMadrid(serie) == DropNa(DfOut(serie))
CrearFeaturesUnificado(serie) == DropNa(DfOut(serie))

\* the input series: ramps b, b + paso, ... and the Madrid column of the CSV
Rampa(n, b, paso) == [i \in 1..(n + 1) |-> b + paso * (i - 1)]
SerieCsv(n) == [i \in 1..(n + 1) |-> TMinDato(CodigoMadrid, i)]
LargosSerie == (MaxLag - 2)..(MaxLag + MaxFilasCompletas)
SeriesEntrada ==
    {Rampa(n, 10 * b, paso) : n \in LargosSerie, b \in 0..MaxInicio, paso \in {10, -5}}
        \cup {SerieCsv(n) : n \in LargosSerie}
FuncionesFeatures == {"temperatura", "madrid", "unificado"}

InitFeatures ==
    /\ clase = "multi"
    /\ df_tmin_desde = [c \in Estaciones |-> 1]
    /\ cov_vacia = FALSE
    /\ artefactos = ArtefactosBuenos
    /\ ahora = RelojInicial
    /\ ultima_prediccion = None /\ fecha_cache = SinFecha /\ calculada_para = SinFecha
    /\ ret = SinLlamada
    /\ temperatura = 0 /\ riesgo_multi = SinClasificar /\ riesgo_simple = SinClasificar
    /\ pc = [h \in Hilos |-> "libre"]
    /\ h_fecha = [h \in Hilos |-> SinFecha]
    /\ h_resultado = [h \in Hilos |-> None]
    /\ notif = None
    /\ idw = Reposo /\ geo = Reposo /\ relleno = Reposo
    /\ BotEnReposo
    /\ \E serie \in SeriesEntrada, funcion \in FuncionesFeatures :
         feat = [hecho |-> FALSE, serie |-> serie, funcion |-> funcion,
                 df_out |-> <<>>, completas |-> <<>>]

FueraDeFeatures ==
    <<entorno, ahora, ultima_prediccion, fecha_cache, calculada_para, ret,
      vars_riesgo, vars_hilos, notif, idw, geo, relleno, vars_bot>>

\* one of the three functions builds the features of the series, and the
\* complete rows are kept
CrearFeatures ==
    /\ ~feat.hecho
    /\ feat' = [feat EXCEPT
                  !.hecho = TRUE,
                  !.df_out = DfOut(feat.serie),
                  !.completas =
                      CASE feat.funcion = "temperatura" ->
                              DropNa(CrearFeaturesTemperatura(feat.serie))
                        [] feat.funcion = "madrid" -> CrearFeaturesMadrid(feat.serie)
                        [] feat.funcion = "unificado" ->
                              CrearFeaturesUnificado(feat.serie)]
    /\ UNCHANGED FueraDeFeatures

\* the same series goes through another of the functions
OtraFuncion ==
    /\ feat.hecho
    /\ \E funcion \in FuncionesFeatures :
         feat' = [feat EXCEPT !.hecho = FALSE, !.funcion = funcion,
                              !.df_out = <<>>, !.completas = <<>>]
    /\ UNCHANGED FueraDeFeatures

NextFeatures == CrearFeatures \/ OtraFuncion

SpecFeatures == InitFeatures /\ [][NextFeatures]_vars

\* the series 0, 1, 2, ..., n in tenths of a degree
EsRampaUnidad(serie) == serie = Rampa(Len(serie) - 1, 0, 10)
\* sum of the values at the row indices a .. b (counted from 0)
RECURSIVE SumaIndices(_, _)
SumaIndices(serie, S) ==
    IF S = {} THEN 0
    ELSE LET j == CHOOSE e \in S : TRUE
         IN  serie[j + 1] + SumaIndices(serie, S \ {j})
IndicesCompletos(filas) == {filas[k].idx : k \in 1..Len(filas)}

\* C19: at row i the lag-1 feature is the value of row i - 1 (i - 1 for the
\* series 0, 1, ..., n), the rolling mean over w is the mean of rows
\* i - w .. i - 1, row i itself excluded, and the complete rows are exactly
\* the rows of index 30 and more.
C19_LagsYMedias ==
    feat.hecho
        => /\ \A k \in 1..Len(feat.df_out) :
                LET fila == feat.df_out[k]
                    i == fila.idx
                IN  /\ i >= 1 => fila.lag[1] = feat.serie[i]
                    /\ (i >= 1 /\ EsRampaUnidad(feat.serie))
                          => fila.lag[1] = 10 * (i - 1)
                    /\ \A w \in VentanasRolling :
                         i >= w =>
                            /\ fila.ma[w] = SumaIndices(feat.serie, (i - w)..(i - 1)) \div w
                            /\ EsRampaUnidad(feat.serie)
                                 => fila.ma[w] = 10 * i - 5 * (w + 1)
           /\ IndicesCompletos(feat.completas)
                = {i \in 0..(Len(feat.serie) - 1) : i >= 30}
           /\ \A k \in 1..Len(feat.completas) :
                feat.completas[k] = feat.df_out[feat.completas[k].idx + 1]

\* C19 witness: the series 0, 1, ..., 32 went through the unified function;
\* its first complete row is row 30, with lag-1 29 and 30-day mean 14.5.
C19_Witness ==
    /\ feat.hecho /\ feat.funcion = "unificado"
    /\ feat.serie = Rampa(32, 0, 10)
    /\ Len(feat.completas) = 3
    /\ feat.completas[1].idx = 30
    /\ feat.completas[1].lag[1] = 290
    /\ feat.completas[1].ma[30] = 145
    /\ feat.completas[1].ma[3] = 280

\* ------------------------------------------------------------------------
\* Order of the stations
\* ------------------------------------------------------------------------
\* the orders in which the TMin_ columns of the CSV can come
OrdenesPosibles ==
    {o \in [1..Len(OrdenEstaciones) -> Estaciones] :
        \A i, j \in 1..Len(OrdenEstaciones) : i # j => o[i] # o[j]}
ConjuntoDe(lote) ==
    {lote.predicciones_estaciones[i] : i \in 1..Len(lote.predicciones_estaciones)}

\* C20: the batch the notifier received holds the same set of station
\* results, and leads the notifier to the same station and values, for every
\* order in which the stations are processed.
C20_OrdenIndiferente ==
    (notif # None /\ EsLote(notif.resultado_multi))
        => \A o \in OrdenesPosibles :
             LET otro == CalculoOrden(o, notif.fecha)
             IN  /\ EsLote(otro)
                 /\ ConjuntoDe(otro) = ConjuntoDe(notif.resultado_multi)
                 /\ ObtenerPrediccionActual(otro) = notif.prediccion

\* ------------------------------------------------------------------------
\* Calls that return an error
\* ------------------------------------------------------------------------
\* predecir(fecha, forzar_recalculo=False) asked of the predictor of this
\* process
PredecirSinForzar(arg) ==
    IF clase = "multi" THEN PredecirMulti(arg, FALSE)
    ELSE PredecirSimple(arg, FALSE, <<>>)

\* C29: a call of predecir that returns an error value, forced or not,
\* leaves the cached batch and its date key as they were, and an unforced
\* call for the cached date made right after it returns the cached batch.
C29_ErrorNoTocaCache ==
    [][(ret'.turno # ret.turno /\ ret'.valor.tipo = "error")
        => (/\ ultima_prediccion' = ultima_prediccion
            /\ fecha_cache' = fecha_cache
            /\ Clave' = Clave
            /\ (ultima_prediccion # None)
                 => (PredecirSinForzar(ArgTs(Clave)).valor)' = ultima_prediccion)]_vars

\* C29 witness: a forced call returned an error while the cache held a
\* batch for another date, and the batch is still there.
C29_Witness ==
    /\ HuboLlamada /\ ret.forzar /\ ret.fresco
    /\ ret.valor.tipo = "error"
    /\ ultima_prediccion # None /\ EsLote(ultima_prediccion)
    /\ Clave # FechaArg(ret)

\* ------------------------------------------------------------------------
\* Reads of xinters in punto_en_poligono
\* ------------------------------------------------------------------------
RECURSIVE LecturasXInters(_, _, _, _, _, _)
\* the for loop from iteration i on, recording every evaluation of
\* x <= xinters: the iteration that reads the variable and the iteration
\* that last assigned it (0 when none has)
LecturasXInters(x, y, poligono, i, p1, asignada_en) ==
    IF i > Len(poligono) THEN {}
    ELSE LET p2 == poligono[(i % Len(poligono)) + 1]
             asignada2 == IF CruzaBanda(x, y, p1, p2) /\ p1[2] # p2[2]
                          THEN i ELSE asignada_en
             lee == CruzaBanda(x, y, p1, p2) /\ p1[1] # p2[1]
         IN  (IF lee THEN {[iteracion |-> i, asignada_en |-> asignada2,
                            p1_lon |-> p1[2], p2_lon |-> p2[2]]}
              ELSE {})
                \cup LecturasXInters(x, y, poligono, i + 1, p2, asignada2)

\* the reads made by the query recorded in geo
LecturasDeLaConsulta ==
    LecturasXInters(geo.lat, geo.lon, geo.poligono, 1, geo.poligono[1], 0)

\* C26: in a query of punto_en_poligono every evaluation of x <= xinters
\* reads a value assigned in that same iteration of the loop, on an edge
\* with p1_lon # p2_lon; the variable is never read unassigned or stale, and
\* the query returns a boolean.
C26_XIntersAsignada ==
    geo.hecho
        => /\ \A l \in LecturasDeLaConsulta :
                /\ l.asignada_en = l.iteracion
                /\ l.p1_lon # l.p2_lon
           /\ geo.dentro \in BOOLEAN

\* C26 witness: the ray of the query lies on the line of an edge of constant
\* lon (an edge that assigns nothing) whose ends differ in lat and reach
\* the point's lat, and an earlier edge of the same query assigned and read
\* xinters.
C26_Witness ==
    /\ geo.hecho
    /\ \E k \in 1..Len(geo.poligono) :
          LET a == geo.poligono[k]
              b == geo.poligono[(k % Len(geo.poligono)) + 1]
          IN  /\ a[2] = b[2] /\ a[2] = geo.lon /\ a[1] # b[1]
              /\ geo.lat <= Max(a[1], b[1])
              /\ \E l \in LecturasDeLaConsulta : l.iteracion < k

\* ------------------------------------------------------------------------
\* Telegram bot (bot/database.py, bot/notificador.py, bot/telegram_bot.py,
\* bot/automatizador.py)
\*
\* The suscriptores table is a function from chat id to its row, or SinFila
\* when the table has no row for the chat.  sqlite3 is taken to execute every
\* statement it is given, so the except branches of DatabaseManager are not
\* entered.  A coroutine is atomic between two awaits.
\* ------------------------------------------------------------------------
Chats == {101, 202}
NULL == [tipo |-> "null"]
SinFila == [tipo |-> "sin fila"]

\* variant: the row keeps the name of the chat
FilaNueva_con_nombre(username, nombre) ==
    [tipo |-> "fila", username |-> NULL,
     nombre |-> [tipo |-> "texto", valor |-> "first_name"], activo |-> TRUE,
     alertas_recibidas |-> 0, ultima_alerta |-> NULL]

\* the row INSERT OR REPLACE writes: the columns it names, and the DEFAULT
\* of every other column
FilaNueva(username, nombre) ==
    [tipo |-> "fila", username |-> username, nombre |-> nombre, activo |-> TRUE,
     alertas_recibidas |-> 0, ultima_alerta |-> NULL]

\* DatabaseManager.agregar_suscriptor: the table it leaves (it returns True)
AgregarSuscriptor(t, chat_id, username, nombre) ==
    [t EXCEPT ![chat_id] = FilaNueva(username, nombre)]

\* DatabaseManager.esta_suscrito
EstaSuscrito(t, chat_id) == t[chat_id] # SinFila /\ t[chat_id].activo

\* variant: the update never deactivates
ActualizarEstadoSuscripcion_activa(t, chat_id, activo) ==
    IF t[chat_id] = SinFila THEN t ELSE [t EXCEPT ![chat_id].activo = TRUE]

\* DatabaseManager.actualizar_estado_suscripcion: the table it leaves (it
\* returns True, also when no row matches)
ActualizarEstadoSuscripcion(t, chat_id, activo) ==
    IF t[chat_id] = SinFila THEN t ELSE [t EXCEPT ![chat_id].activo = activo]

RECURSIVE EnOrden(_)
\* the elements of a set of chat ids in ascending order
EnOrden(S) ==
    IF S = {} THEN <<>>
    ELSE LET m == CHOOSE x \in S : \A y \in S : x <= y
         IN  <<m>> \o EnOrden(S \ {m})

\* DatabaseManager.obtener_suscriptores_activos (rows come in rowid order,
\* and chat_id is the rowid)
ObtenerSuscriptoresActivos(t) ==
    EnOrden({c \in Chats : t[c] # SinFila /\ t[c].activo})

\* DatabaseManager.obtener_info_suscriptor: the row, or None
ObtenerInfoSuscriptor(t, chat_id) ==
    IF t[chat_id] = SinFila THEN None ELSE t[chat_id]

\* DatabaseManager.incrementar_contador_alertas
IncrementarContadorAlertas(t, chat_id) ==
    IF t[chat_id] = SinFila THEN t
    ELSE [t EXCEPT ![chat_id].alertas_recibidas = @ + 1,
                   ![chat_id].ultima_alerta = "CURRENT_TIMESTAMP"]

\* DatabaseManager.registrar_alerta_enviada
RegistrarAlertaEnviada(h, nivel_riesgo, usuarios_notificados, exito) ==
    Append(h, [nivel_riesgo |-> nivel_riesgo,
               usuarios_notificados |-> usuarios_notificados,
               exito |-> exito])

\* config.UMBRALES, in tenths of a degree
UmbralAlertaAlto == 0
UmbralAlertaMedio == 20

\* variant: the MEDIO tier reaches 4 degrees
NecesitaEnviarAlerta_amplia(prediccion) ==
    IF prediccion.tipo = "error" THEN [debe |-> FALSE, nivel |-> None]
    ELSE IF prediccion.temperatura_predicha <= UmbralAlertaAlto
    THEN [debe |-> TRUE, nivel |-> "ALTO"]
    ELSE IF prediccion.temperatura_predicha <= 40
    THEN [debe |-> TRUE, nivel |-> "MEDIO"]
    ELSE [debe |-> FALSE, nivel |-> None]

\* NotificadorHeladas.necesita_enviar_alerta
NecesitaEnviarAlerta(prediccion) ==
    IF prediccion.tipo = "error" THEN [debe |-> FALSE, nivel |-> None]
    ELSE IF prediccion.temperatura_predicha <= UmbralAlertaAlto
    THEN [debe |-> TRUE, nivel |-> "ALTO"]
    ELSE IF prediccion.temperatura_predicha <= UmbralAlertaMedio
    THEN [debe |-> TRUE, nivel |-> "MEDIO"]
    ELSE [debe |-> FALSE, nivel |-> None]

\* what notificador.obtener_prediccion_actual() hands to a review: an error,
\* or the prediction of a station with its temperature in tenths
TemperaturasBot == {0 - 5, 0, 20, 21}
PrediccionBot(t) == [tipo |-> "prediccion", temperatura_predicha |-> t]
PrediccionesBot ==
    {ErrorVal("Predictor no disponible")} \cup {PrediccionBot(t) : t \in TemperaturasBot}

\* the review is not running; n counts the reviews started so far and
\* prediccion is what the last one obtained
RevInactiva(n, prediccion) ==
    [pc |-> "inactiva", n |-> n, prediccion |-> prediccion, nivel |-> None,
     suscriptores |-> <<>>, i |-> 0, enviados |-> 0, errores |-> 0]

\* revisar_y_enviar_alertas from its first line to its first await: the
\* early returns, or the list of subscribers read once and the first
\* send_message under way
ComenzarRevision(prediccion) ==
    LET alerta == NecesitaEnviarAlerta(prediccion)
        suscriptores == ObtenerSuscriptoresActivos(tabla)
    IN  IF prediccion.tipo = "error" THEN RevInactiva(rev.n + 1, prediccion)
        ELSE IF ~alerta.debe THEN RevInactiva(rev.n + 1, prediccion)
        ELSE IF Len(suscriptores) = 0 THEN RevInactiva(rev.n + 1, prediccion)
        ELSE [pc |-> "enviando", n |-> rev.n + 1, prediccion |-> prediccion,
              nivel |-> alerta.nivel, suscriptores |-> suscriptores, i |-> 1,
              enviados |-> 0, errores |-> 0]

\* the for loop after iteration r.i: the next send_message, or the end of
\* the loop and the row written to historial_alertas
Continuar(r, h) ==
    IF r.i < Len(r.suscriptores)
    THEN [rev |-> [r EXCEPT !.pc = "enviando", !.i = r.i + 1], historial |-> h]
    ELSE [rev |-> RevInactiva(r.n, r.prediccion),
          historial |-> RegistrarAlertaEnviada(h, r.nivel, r.enviados, r.errores = 0)]

\* the predictor and the pure routines are not part of the bot's state
PredictorSinUsar ==
    /\ clase = "multi"
    /\ df_tmin_desde = [c \in Estaciones |-> 1]
    /\ cov_vacia = FALSE
    /\ artefactos = ArtefactosBuenos
    /\ ahora = RelojInicial
    /\ ultima_prediccion = None /\ fecha_cache = SinFecha /\ calculada_para = SinFecha
    /\ ret = SinLlamada
    /\ temperatura = 0 /\ riesgo_multi = SinClasificar /\ riesgo_simple = SinClasificar
    /\ pc = [h \in Hilos |-> "libre"]
    /\ h_fecha = [h \in Hilos |-> SinFecha]
    /\ h_resultado = [h \in Hilos |-> None]
    /\ notif = None
    /\ idw = Reposo /\ geo = Reposo /\ relleno = Reposo /\ feat = Reposo

FueraDeBot ==
    <<entorno, ahora, ultima_prediccion, fecha_cache, calculada_para, ret,
      vars_riesgo, vars_hilos, notif, idw, geo, relleno, feat, noti>>

SinRespuesta == [comando |-> "ninguno", chat_id |-> 0, texto |-> None]
Respuesta(comando, chat_id, mensaje) ==
    [comando |-> comando, chat_id |-> chat_id, texto |-> [mensaje |-> mensaje]]

InitBot ==
    /\ PredictorSinUsar
    /\ tabla = [c \in Chats |-> SinFila]
    /\ historial = <<>>
    /\ rev = RevInactiva(0, None)
    /\ respuesta = SinRespuesta
    /\ detenido = {}
    /\ entregadas = [c \in Chats |-> 0]
    /\ agenda = Reposo
    /\ noti = Reposo

\* /start
Start ==
    \E chat_id \in Chats :
        /\ IF EstaSuscrito(tabla, chat_id)
           THEN /\ respuesta' = Respuesta("start", chat_id, "ya_suscrito")
                /\ tabla' = tabla
           ELSE /\ tabla' = AgregarSuscriptor(tabla, chat_id, NULL, NULL)
                /\ respuesta' = Respuesta("start", chat_id, "suscripcion_exitosa")
        /\ UNCHANGED <<historial, rev, detenido, entregadas, agenda, FueraDeBot>>

\* /stop
Stop ==
    \E chat_id \in Chats :
        /\ IF ~EstaSuscrito(tabla, chat_id)
           THEN /\ respuesta' = Respuesta("stop", chat_id, "no_suscrito")
                /\ tabla' = tabla
                /\ detenido' = detenido
           ELSE /\ tabla' = ActualizarEstadoSuscripcion(tabla, chat_id, FALSE)
                /\ respuesta' = Respuesta("stop", chat_id, "pausado")
                /\ detenido' = detenido \cup {chat_id}
        /\ UNCHANGED <<historial, rev, entregadas, agenda, FueraDeBot>>

\* /reanudar
Reanudar ==
    \E chat_id \in Chats :
        /\ IF ObtenerInfoSuscriptor(tabla, chat_id) = None
           THEN /\ respuesta' = Respuesta("reanudar", chat_id, "no_suscrito")
                /\ tabla' = tabla
           ELSE /\ tabla' = ActualizarEstadoSuscripcion(tabla, chat_id, TRUE)
                /\ respuesta' = Respuesta("reanudar", chat_id, "reanudado")
        /\ detenido' = detenido \ {chat_id}
        /\ UNCHANGED <<historial, rev, entregadas, agenda, FueraDeBot>>

\* /estado
Estado ==
    \E chat_id \in Chats :
        /\ LET info == ObtenerInfoSuscriptor(tabla, chat_id)
           IN  IF info = None
               THEN respuesta' = Respuesta("estado", chat_id, "no_suscrito")
               ELSE respuesta' =
                        [comando |-> "estado", chat_id |-> chat_id,
                         texto |-> [mensaje |-> "estado", activo |-> info.activo,
                                    alertas_recibidas |-> info.alertas_recibidas]]
        /\ UNCHANGED <<tabla, historial, rev, detenido, entregadas, agenda, FueraDeBot>>

\* a review starts (ejecutar_revision_manual, or a job of a job queue)
IniciarRevision ==
    /\ rev.pc = "inactiva"
    /\ rev.n < MaxRevisiones
    /\ \E prediccion \in PrediccionesBot : rev' = ComenzarRevision(prediccion)
    /\ UNCHANGED <<tabla, historial, respuesta, detenido, entregadas, agenda, FueraDeBot>>

\* await bot.send_message(...) returns or raises; on return the counter of
\* the chat is incremented and the coroutine sleeps, on an exception the
\* loop goes on
EnvioCompletado ==
    /\ rev.pc = "enviando"
    /\ \E ok \in BOOLEAN :
         LET chat_id == rev.suscriptores[rev.i]
             sigue == Continuar([rev EXCEPT !.errores = @ + 1], historial)
         IN  IF ok
             THEN /\ tabla' = IncrementarContadorAlertas(tabla, chat_id)
                  /\ entregadas' = [entregadas EXCEPT ![chat_id] = @ + 1]
                  /\ rev' = [rev EXCEPT !.enviados = @ + 1, !.pc = "durmiendo"]
                  /\ historial' = historial
             ELSE /\ rev' = sigue.rev
                  /\ historial' = sigue.historial
                  /\ UNCHANGED <<tabla, entregadas>>
    /\ UNCHANGED <<respuesta, detenido, agenda, FueraDeBot>>

\* await asyncio.sleep(0.1) returns
DespertarRevision ==
    /\ rev.pc = "durmiendo"
    /\ LET sigue == Continuar(rev, historial)
       IN  rev' = sigue.rev /\ historial' = sigue.historial
    /\ UNCHANGED <<tabla, respuesta, detenido, entregadas, agenda, FueraDeBot>>

NextBot ==
    \/ Start \/ Stop \/ Reanudar \/ Estado
    \/ IniciarRevision \/ EnvioCompletado \/ DespertarRevision

SpecBot == InitBot /\ [][NextBot]_vars

\* ------------------------------------------------------------------------
\* DatabaseManager called directly
\* ------------------------------------------------------------------------
Operacion(nombre, chat_id, activo) ==
    [comando |-> nombre, chat_id |-> chat_id,
     texto |-> [mensaje |-> "True", activo |-> activo]]

InitDb ==
    /\ PredictorSinUsar
    /\ tabla = [c \in Chats |-> SinFila]
    /\ respuesta = SinRespuesta
    /\ historial = <<>>
    /\ rev = RevInactiva(0, None)
    /\ detenido = {}
    /\ entregadas = [c \in Chats |-> 0]
    /\ agenda = Reposo
    /\ noti = Reposo

FueraDeDb == <<historial, rev, detenido, entregadas, agenda, FueraDeBot>>

\* db.agregar_suscriptor(chat_id)
LlamarAgregarSuscriptor ==
    /\ \E chat_id \in Chats :
         /\ tabla' = AgregarSuscriptor(tabla, chat_id, NULL, NULL)
         /\ respuesta' = Operacion("agregar_suscriptor", chat_id, TRUE)
    /\ UNCHANGED FueraDeDb

\* db.actualizar_estado_suscripcion(chat_id, activo)
LlamarActualizarEstado ==
    /\ \E chat_id \in Chats, activo \in BOOLEAN :
         /\ tabla' = ActualizarEstadoSuscripcion(tabla, chat_id, activo)
         /\ respuesta' = Operacion("actualizar_estado_suscripcion", chat_id, activo)
    /\ UNCHANGED FueraDeDb

\* db.incrementar_contador_alertas(chat_id)
LlamarIncrementarContador ==
    /\ \E chat_id \in Chats :
         /\ tabla[chat_id] # SinFila => tabla[chat_id].alertas_recibidas < MaxContador
         /\ tabla' = IncrementarContadorAlertas(tabla, chat_id)
         /\ respuesta' = Operacion("incrementar_contador_alertas", chat_id, TRUE)
    /\ UNCHANGED FueraDeDb

NextDb == LlamarAgregarSuscriptor \/ LlamarActualizarEstado \/ LlamarIncrementarContador

SpecDb == InitDb /\ [][NextDb]_vars

\* ------------------------------------------------------------------------
\* Properties of the bot
\* ------------------------------------------------------------------------
EnLista(lista, x) == \E i \in 1..Len(lista) : lista[i] = x
\* this step puts a send_message to the chat under way
EnvioIniciado(chat_id) ==
    /\ rev'.pc = "enviando"
    /\ rev'.suscriptores[rev'.i] = chat_id
    /\ (rev.pc # "enviando" \/ rev'.i # rev.i \/ rev'.n # rev.n)
Pausado(t, chat_id) == t[chat_id] # SinFila /\ ~t[chat_id].activo
Contador(t, chat_id) ==
    IF t[chat_id] = SinFila THEN 0 ELSE t[chat_id].alertas_recibidas
\* the rule of the alert as the bot announces it
DebeAlertar(prediccion) ==
    prediccion.tipo = "prediccion" /\ prediccion.temperatura_predicha <= 20
NivelAnunciado(prediccion) ==
    IF prediccion.temperatura_predicha <= 0 THEN "ALTO" ELSE "MEDIO"

\* C21: no send_message of an alert is started to a chat whose last /stop
\* succeeded and which has not issued /reanudar since, whatever commands and
\* reviews came in between.
C21_SinAlertaTrasStop ==
    [][\A c \in Chats : EnvioIniciado(c) => c \notin detenido]_vars

\* C23: a review sends messages only for a prediction without error whose
\* temperature is at most 2 degrees, with level ALTO at or below 0 degrees
\* and MEDIO above; for an error or a warmer prediction the review ends at
\* once, sends nothing and writes no history row; a history row carries the
\* level of its review.
C23_AlertaSoloConRiesgo ==
    [][/\ (rev'.n # rev.n /\ ~DebeAlertar(rev'.prediccion))
            => (/\ rev'.pc = "inactiva"
                /\ historial' = historial
                /\ entregadas' = entregadas)
       /\ (rev'.pc # "inactiva")
            => (/\ DebeAlertar(rev'.prediccion)
                /\ rev'.nivel = NivelAnunciado(rev'.prediccion))
       /\ (entregadas' # entregadas) => DebeAlertar(rev.prediccion)
       /\ (historial' # historial)
            => (/\ DebeAlertar(rev.prediccion)
                /\ Len(historial') = Len(historial) + 1
                /\ historial'[Len(historial')].nivel_riesgo
                      = NivelAnunciado(rev.prediccion))]_vars

\* C23 witness: a review of a prediction of exactly 2.0 degrees alerted a
\* subscriber and wrote its history row with level MEDIO.
C23_Witness ==
    /\ rev.pc = "inactiva" /\ rev.prediccion = PrediccionBot(20)
    /\ Len(historial) = 1
    /\ historial[1].nivel_riesgo = "MEDIO" /\ historial[1].usuarios_notificados = 1
    /\ \E c \in Chats : entregadas[c] = 1

\* C23 second case: a review of 2.1 degrees ended with an active subscriber
\* in the table, and nothing was sent or written.
C23_WitnessSinAlerta ==
    /\ rev.n = 1 /\ rev.pc = "inactiva" /\ rev.prediccion = PrediccionBot(21)
    /\ \E c \in Chats : EstaSuscrito(tabla, c)
    /\ historial = <<>>
    /\ \A c \in Chats : entregadas[c] = 0

\* C24: every row of the subscriber table has username and nombre NULL.
C24_SinDatosPersonales ==
    \A c \in Chats :
        tabla[c] # SinFila => (tabla[c].username = NULL /\ tabla[c].nombre = NULL)

\* C24 witness: a row written by /start that was later paused and had an
\* alert counted.
C24_Witness ==
    \E c \in Chats :
        /\ tabla[c] # SinFila /\ ~tabla[c].activo /\ tabla[c].alertas_recibidas = 1
        /\ tabla[c].username = NULL

C27_PausadoNoRecibe ==
    [][\A c \in Chats : EnvioIniciado(c) => ~Pausado(tabla, c)]_vars

\* C28: for every chat the alertas_recibidas counter never decreases and
\* equals the number of alerts whose send succeeded.
C28_ContadorDeAlertas ==
    [][\A c \in Chats :
          /\ Contador(tabla', c) >= Contador(tabla, c)
          /\ Contador(tabla', c) = entregadas'[c]]_vars

\* ------------------------------------------------------------------------
\* Scheduling of the reviews (iniciar_bot, configurar_automatizacion)
\*
\* The clock of this section steps through the moments of a day listed in
\* Momentos (hours); an Application holds the jobs of its job queue, and a
\* daily job runs when the clock stands at its hour after the Application
\* started.
\* ------------------------------------------------------------------------
\* config.HORARIOS_CHEQUEO, as hours
HorariosChequeo == {6, 18, 22}
Momentos == <<0, 6, 12, 18, 22>>

\* the instant <<dia, momento>> a comes before b
Antes(a, b) == a[1] < b[1] \/ (a[1] = b[1] /\ a[2] < b[2])
Instante == <<agenda.dia, agenda.momento>>

\* the jobs that configurar_automatizacion adds to the job queue: one
\* run_daily per entry of HORARIOS_CHEQUEO
JobsConfigurados == HorariosChequeo

\* a job of the running Application is due now and has not run
JobPendiente ==
    /\ agenda.origen # "ninguna"
    /\ Momentos[agenda.momento] \in agenda.jobs
    /\ Antes(agenda.desde, Instante)
    /\ <<agenda.dia, Momentos[agenda.momento]>> \notin agenda.disparos

InitAgenda ==
    /\ PredictorSinUsar
    /\ tabla = [c \in Chats |-> IF c = 101 THEN FilaNueva(NULL, NULL) ELSE SinFila]
    /\ historial = <<>>
    /\ rev = RevInactiva(0, None)
    /\ respuesta = SinRespuesta
    /\ detenido = {}
    /\ entregadas = [c \in Chats |-> 0]
    /\ \E m \in 1..Len(Momentos) :
         agenda = [origen |-> "ninguna", jobs |-> {}, dia |-> 1, momento |-> m,
                   desde |-> <<0, 0>>, disparos |-> {}]
    /\ noti = Reposo

FueraDeAgenda == <<tabla, historial, rev, respuesta, detenido, entregadas, FueraDeBot>>

\* iniciar_bot: the Application is built, the command handlers are added and
\* run_polling starts; nothing is added to its job queue
IniciarBot ==
    /\ agenda.origen = "ninguna"
    /\ agenda' = [agenda EXCEPT !.origen = "iniciar_bot", !.jobs = {},
                                !.desde = Instante]
    /\ UNCHANGED FueraDeAgenda

\* another program builds an Application, hands it to
\* configurar_automatizacion and runs it
ConfigurarAutomatizacion ==
    /\ agenda.origen = "ninguna"
    /\ agenda' = [agenda EXCEPT !.origen = "configurada", !.jobs = JobsConfigurados,
                                !.desde = Instante]
    /\ UNCHANGED FueraDeAgenda

\* tarea_programada: a daily job runs and starts the review
TareaProgramada ==
    /\ JobPendiente
    /\ rev.pc = "inactiva"
    /\ \E prediccion \in PrediccionesBot : rev' = ComenzarRevision(prediccion)
    /\ agenda' = [agenda EXCEPT
                    !.disparos = @ \cup {<<agenda.dia, Momentos[agenda.momento]>>}]
    /\ UNCHANGED <<tabla, historial, respuesta, detenido, entregadas, FueraDeBot>>

\* the clock reaches the next moment, once the job due now has run
AvanzarReloj ==
    /\ ~JobPendiente
    /\ IF agenda.momento < Len(Momentos)
       THEN agenda' = [agenda EXCEPT !.momento = @ + 1]
       ELSE /\ agenda.dia <= MaxDiasAgenda
            /\ agenda' = [agenda EXCEPT !.dia = @ + 1, !.momento = 1]
    /\ UNCHANGED FueraDeAgenda

NextAgenda ==
    \/ IniciarBot \/ ConfigurarAutomatizacion \/ TareaProgramada \/ AvanzarReloj
    \/ EnvioCompletado \/ DespertarRevision

SpecAgenda == InitAgenda /\ [][NextAgenda]_vars

\* the check times that have gone by since the Application started
HorariosPasados ==
    {i \in (1..agenda.dia) \X (1..Len(Momentos)) :
        /\ Momentos[i[2]] \in HorariosChequeo
        /\ Antes(agenda.desde, i)
        /\ Antes(i, Instante)}

\* C22: once the bot runs through iniciar_bot, a review has run at every
\* time of HORARIOS_CHEQUEO (06:00, 18:00, 22:00) that has gone by since.
C22_RevisionEnCadaHorario ==
    (agenda.origen = "iniciar_bot")
        => \A i \in HorariosPasados : <<i[1], Momentos[i[2]]>> \in agenda.disparos

\* ------------------------------------------------------------------------
\* obtener_prediccion_actual as a function of the notifier and of what its
\* predictor returns
\* ------------------------------------------------------------------------
\* the station codes a notifier is constructed with
EstacionesDefault == {EstacionDefault} \cup Estaciones
\* what self.predictor.predecir() can hand back: the value predecir computes
\* for a query date, in any order of the stations, an exception, and a batch
\* with an empty list of results
ResultadosPredictor ==
    {CalculoOrden(o, Dias(d)) : o \in OrdenesPosibles, d \in DiasConsulta}
        \cup {Excepcion("KeyError"), Lote(100, 101, <<>>)}

InitNotificador ==
    /\ PredictorSinUsar
    /\ tabla = Reposo /\ historial = Reposo /\ rev = Reposo /\ respuesta = Reposo
    /\ detenido = Reposo /\ entregadas = Reposo /\ agenda = Reposo
    /\ \E disponible \in BOOLEAN, estacion_default \in EstacionesDefault,
          resultado_multi \in ResultadosPredictor :
         noti = [hecho |-> FALSE, disponible |-> disponible,
                 estacion_default |-> estacion_default,
                 resultado_multi |-> resultado_multi, prediccion |-> None]

FueraDeNotificador ==
    <<tabla, historial, rev, respuesta, detenido, entregadas, agenda,
      entorno, ahora, ultima_prediccion, fecha_cache, calculada_para, ret,
      vars_riesgo, vars_hilos, notif, idw, geo, relleno, feat>>

\* notificador.obtener_prediccion_actual()
LlamarObtenerPrediccion ==
    /\ ~noti.hecho
    /\ noti' = [noti EXCEPT
                  !.hecho = TRUE,
                  !.prediccion = ObtenerPrediccionDe(noti.disponible,
                                                     noti.estacion_default,
                                                     noti.resultado_multi)]
    /\ UNCHANGED FueraDeNotificador

\* the predictor hands back another value on the next call
OtroResultado ==
    /\ noti.hecho
    /\ \E resultado_multi \in ResultadosPredictor :
         noti' = [noti EXCEPT !.hecho = FALSE, !.resultado_multi = resultado_multi,
                              !.prediccion = None]
    /\ UNCHANGED FueraDeNotificador

NextNotificador == LlamarObtenerPrediccion \/ OtroResultado

SpecNotificador == InitNotificador /\ [][NextNotificador]_vars

\* positions of the batch that hold the station with the given code
Posiciones(lote, codigo) ==
    {i \in 1..Len(lote.predicciones_estaciones) :
        lote.predicciones_estaciones[i].codigo = codigo}

C30_WitnessAusente ==
    /\ noti.hecho /\ noti.disponible /\ EsLote(noti.resultado_multi)
    /\ Len(noti.resultado_multi.predicciones_estaciones) > 1
    /\ Posiciones(noti.resultado_multi, noti.estacion_default) = {}
    /\ noti.prediccion.estacion_codigo
          = noti.resultado_multi.predicciones_estaciones[1].codigo

====
